---- MODULE Spec2Model ----
(***************************************************************************)
(* A model of the comparison / filter algebra of clarify-go.                *)
(*                                                                          *)
(* The repository carries the algebra in two generations: the packages      *)
(* fields + params (current) and the package query (legacy).  They share    *)
(* most of their code; where they differ (Or, NotIn) the variable pkg says  *)
(* which one a behaviour runs.                                              *)
(*                                                                          *)
(* Conventions                                                              *)
(*   - a Go string or a run of JSON bytes is a tuple of one-character       *)
(*     strings, so that a prefix test or a first-byte test is computed;     *)
(*   - a Go slice is [isnil, elems]: nil and empty-but-allocated differ;    *)
(*   - a json.RawMessage is a tuple of characters, << >> when nil;          *)
(*   - a JSON document is [k, s, v]: k = "raw" (s the token), "arr" (v the  *)
(*     elements) or "obj" (v the members [key, val], in output order).      *)
(***************************************************************************)
EXTENDS Integers, Sequences, FiniteSets, TLC

VARIABLES pkg, cop, fop, mem, frame, tsop, dop, lab, aut, pub

vars == <<pkg, cop, fop, mem, frame, tsop, dop, lab, aut, pub>>

\* Largest number of elements handed to In / NotIn.
MaxElems == 2
\* Largest number of arguments handed to MergeOperators.
MaxMergeArgs == 2

\* Largest number of arguments handed to And / Or.
MaxArgs == 2
\* Largest number of nodes of a filter built.
MaxNodes == 4
\* Largest number of filters a caller holds at once.
MaxHeld == 2

Packages == {"fields", "query"}

-----------------------------------------------------------------------------
(* Go values and encoding/json                                              *)

TokNull == <<"n", "u", "l", "l">>
TokTrue == <<"t", "r", "u", "e">>
TokFalse == <<"f", "a", "l", "s", "e">>

Digits == <<"0", "1", "2", "3", "4", "5", "6", "7", "8", "9">>

RECURSIVE NatToDec(_)
NatToDec(n) ==
    IF n < 10 THEN <<Digits[n + 1]>>
    ELSE NatToDec(n \div 10) \o <<Digits[(n % 10) + 1]>>

\* strconv's decimal form of an integer, as encoding/json writes it.
IntToDec(n) == IF n < 0 THEN <<"-">> \o NatToDec(-n) ELSE NatToDec(n)

\* The Go values handed to the builders as `any`.
GoNil == [kind |-> "nil", s |-> << >>, n |-> 0]
GoStr(s) == [kind |-> "string", s |-> s, n |-> 0]
GoInt(n) == [kind |-> "int", s |-> << >>, n |-> n]
GoBool(b) == [kind |-> "bool", s |-> << >>, n |-> IF b THEN 1 ELSE 0]
GoIntSlice(n) == [kind |-> "slice", s |-> << >>, n |-> n]
GoEmptyMap == [kind |-> "map", s |-> << >>, n |-> 0]

\* json.Marshal of a Go value: the bytes written.
JSONMarshalValue(v) ==
    CASE v.kind = "nil" -> TokNull
      [] v.kind = "string" -> <<"\"">> \o v.s \o <<"\"">>
      [] v.kind = "int" -> IntToDec(v.n)
      [] v.kind = "bool" -> (IF v.n = 1 THEN TokTrue ELSE TokFalse)
      [] v.kind = "slice" -> <<"[">> \o IntToDec(v.n) \o <<"]">>
      [] OTHER -> <<"{", "}">>

\* strings.ContainsRune(set, rune(b[0]))
ContainsRune(set, c) == \E i \in 1..Len(set) : set[i] = c

SimpleFirstBytes ==
    <<"\"", "0", "1", "2", "3", "4", "5", "6", "7", "8", "9", ".", "t", "f", "n">>
OrderedFirstBytes ==
    <<"\"", "0", "1", "2", "3", "4", "5", "6", "7", "8", "9", ".">>

\* simpleJSON: [panic, raw].
simpleJSON(v) ==
    LET b == JSONMarshalValue(v) IN
    IF Len(b) = 0 \/ ~ContainsRune(SimpleFirstBytes, b[1])
    THEN [panic |-> TRUE, raw |-> << >>]
    ELSE [panic |-> FALSE, raw |-> b]

\* orderedJSONType: [panic, raw].
orderedJSONType(v) ==
    LET b == JSONMarshalValue(v) IN
    IF Len(b) = 0 \/ ~ContainsRune(OrderedFirstBytes, b[1])
    THEN [panic |-> TRUE, raw |-> << >>]
    ELSE [panic |-> FALSE, raw |-> b]

\* Go slices.
NilSlice == [isnil |-> TRUE, elems |-> << >>]
MakeSlice(s) == [isnil |-> FALSE, elems |-> s]
SliceLen(sl) == Len(sl.elems)
\* append(sl, more...): a nil slice stays nil when nothing is appended.
Append_(sl, more) ==
    IF sl.isnil /\ Len(more) = 0 THEN sl
    ELSE [isnil |-> FALSE, elems |-> sl.elems \o more]

\* JSON documents.
JRaw(tok) == [k |-> "raw", s |-> tok, v |-> << >>]
JArr(xs) == [k |-> "arr", s |-> << >>, v |-> xs]
JObj(ms) == [k |-> "obj", s |-> << >>, v |-> ms]
JNull == JRaw(TokNull)
Member(key, val) == [key |-> key, val |-> val]

\* The result of a MarshalJSON call: sts is the set of ways the call can end
\* ("ok", "err", "panic"; more than one when the order of a map iteration
\* decides), json the document when it ends "ok".
MOk(j) == [sts |-> {"ok"}, json |-> j]
MFail(sts) == [sts |-> sts, json |-> JRaw(<< >>)]

-----------------------------------------------------------------------------
(* Comparison                                                               *)

\* opComparison{}: the zero struct.
ZeroOp ==
    [In |-> NilSlice, NotIn |-> NilSlice, Greater |-> << >>,
     GreaterOrEqual |-> << >>, Less |-> << >>, LessOrEqual |-> << >>,
     Regex |-> << >>]

\* Comparison{value: nil}: the zero value.
ZeroComparison == [isnil |-> TRUE, op |-> ZeroOp]
\* Comparison{value: &op}
PtrComparison(op) == [isnil |-> FALSE, op |-> op]

\* (*opComparison).normalize on a non-nil receiver: the pointer returned.
normalize(op) ==
    LET isEmptyExceptIn ==
            /\ op.NotIn.isnil
            /\ op.Greater = << >>
            /\ op.GreaterOrEqual = << >>
            /\ op.Less = << >>
            /\ op.LessOrEqual = << >>
            /\ op.Regex = << >>
    IN  CASE isEmptyExceptIn /\ op.In.isnil -> ZeroComparison
          [] isEmptyExceptIn /\ SliceLen(op.In) = 1 /\ op.In.elems[1] = TokNull ->
                ZeroComparison
          [] OTHER -> PtrComparison(op)

\* A builder's result: [panic, cmp].
Built(c) == [panic |-> FALSE, cmp |-> c]
BuildPanic == [panic |-> TRUE, cmp |-> ZeroComparison]

\* The elements of a variadic argument through simpleJSON.
SimpleAll(vals) == [i \in 1..Len(vals) |-> simpleJSON(vals[i]).raw]
AnySimplePanic(vals) == \E i \in 1..Len(vals) : simpleJSON(vals[i]).panic

Equal(v) ==
    IF simpleJSON(v).panic THEN BuildPanic
    ELSE Built(normalize([ZeroOp EXCEPT !.In = MakeSlice(<<simpleJSON(v).raw>>)]))

NotEqual(v) ==
    IF simpleJSON(v).panic THEN BuildPanic
    ELSE Built(PtrComparison([ZeroOp EXCEPT !.NotIn = MakeSlice(<<simpleJSON(v).raw>>)]))

In(vals) ==
    IF AnySimplePanic(vals) THEN BuildPanic
    ELSE Built(normalize([ZeroOp EXCEPT !.In = MakeSlice(SimpleAll(vals))]))

\* fields.NotIn
FieldsNotIn(vals) ==
    IF AnySimplePanic(vals) THEN BuildPanic
    ELSE Built(PtrComparison([ZeroOp EXCEPT !.NotIn = MakeSlice(SimpleAll(vals))]))

\* query.NotIn
QueryNotIn(vals) ==
    IF AnySimplePanic(vals) THEN BuildPanic
    ELSE Built(PtrComparison([ZeroOp EXCEPT !.In = MakeSlice(SimpleAll(vals))]))

NotIn(p, vals) == IF p = "query" THEN QueryNotIn(vals) ELSE FieldsNotIn(vals)

Greater(v) ==
    IF orderedJSONType(v).panic THEN BuildPanic
    ELSE Built(PtrComparison([ZeroOp EXCEPT !.Greater = orderedJSONType(v).raw]))

GreaterOrEqual(v) ==
    IF orderedJSONType(v).panic THEN BuildPanic
    ELSE Built(PtrComparison([ZeroOp EXCEPT !.GreaterOrEqual = orderedJSONType(v).raw]))

Less(v) ==
    IF orderedJSONType(v).panic THEN BuildPanic
    ELSE Built(PtrComparison([ZeroOp EXCEPT !.Less = orderedJSONType(v).raw]))

LessOrEqual(v) ==
    IF orderedJSONType(v).panic THEN BuildPanic
    ELSE Built(PtrComparison([ZeroOp EXCEPT !.LessOrEqual = orderedJSONType(v).raw]))

Range(gte, lt) ==
    IF orderedJSONType(gte).panic \/ orderedJSONType(lt).panic THEN BuildPanic
    ELSE Built(PtrComparison([ZeroOp EXCEPT !.GreaterOrEqual = orderedJSONType(gte).raw,
                                            !.Less = orderedJSONType(lt).raw]))

Regex(pattern) == Built(PtrComparison([ZeroOp EXCEPT !.Regex = pattern]))

\* A merge in which a slot once set is kept: the leftmost argument that sets
\* a slot decides it.
MergeOneLeftmost(target, cmp) ==
    IF cmp.isnil
    THEN (IF SliceLen(target.In) > 0 THEN target
          ELSE [target EXCEPT !.In = MakeSlice(<<TokNull>>)])
    ELSE LET v == cmp.op IN
         [In |-> IF SliceLen(target.In) > 0 THEN target.In ELSE v.In,
          NotIn |-> IF SliceLen(target.NotIn) > 0 THEN target.NotIn ELSE v.NotIn,
          Greater |-> IF target.Greater # << >> THEN target.Greater ELSE v.Greater,
          GreaterOrEqual |->
              IF target.GreaterOrEqual # << >> THEN target.GreaterOrEqual
              ELSE v.GreaterOrEqual,
          Less |-> IF target.Less # << >> THEN target.Less ELSE v.Less,
          LessOrEqual |->
              IF target.LessOrEqual # << >> THEN target.LessOrEqual
              ELSE v.LessOrEqual,
          Regex |-> IF target.Regex # << >> THEN target.Regex ELSE v.Regex]

\* One argument of MergeOperators applied to the target struct.
MergeOne(target, cmp) ==
    IF cmp.isnil THEN [target EXCEPT !.In = MakeSlice(<<TokNull>>)]
    ELSE LET v == cmp.op IN
         [In |-> IF SliceLen(v.In) > 0 THEN v.In ELSE target.In,
          NotIn |-> IF SliceLen(v.NotIn) > 0 THEN v.NotIn ELSE target.NotIn,
          Greater |-> IF v.Greater # << >> THEN v.Greater ELSE target.Greater,
          GreaterOrEqual |->
              IF v.GreaterOrEqual # << >> THEN v.GreaterOrEqual
              ELSE target.GreaterOrEqual,
          Less |-> IF v.Less # << >> THEN v.Less ELSE target.Less,
          LessOrEqual |->
              IF v.LessOrEqual # << >> THEN v.LessOrEqual ELSE target.LessOrEqual,
          Regex |-> IF v.Regex # << >> THEN v.Regex ELSE target.Regex]

RECURSIVE MergeFrom(_, _, _)
MergeFrom(target, cmps, i) ==
    IF i > Len(cmps) THEN target
    ELSE MergeFrom(MergeOne(target, cmps[i]), cmps, i + 1)

\* fields.MergeOperators / query.MultiOperator
MergeOperators(cmps) == normalize(MergeFrom(ZeroOp, cmps, 1))

\* json.Marshal of a []json.RawMessage that is not empty.
RawArray(sl) == JArr([i \in 1..Len(sl.elems) |-> JRaw(sl.elems[i])])

\* A string as a JSON token (the patterns of the model need no escaping).
QuoteString(s) == <<"\"">> \o s \o <<"\"">>

K_in == <<"$", "i", "n">>
K_nin == <<"$", "n", "i", "n">>
K_gt == <<"$", "g", "t">>
K_gte == <<"$", "g", "t", "e">>
K_lt == <<"$", "l", "t">>
K_lte == <<"$", "l", "t", "e">>
K_regex == <<"$", "r", "e", "g", "e", "x">>
K_ne == <<"$", "n", "e">>
K_and == <<"$", "a", "n", "d">>
K_or == <<"$", "o", "r">>

\* json.Marshal of a non-nil *opComparison: the struct's fields in order, each
\* left out when empty (omitempty).
MarshalOp(op) ==
    JObj(  (IF SliceLen(op.In) > 0 THEN <<Member(K_in, RawArray(op.In))>> ELSE << >>)
        \o (IF SliceLen(op.NotIn) > 0 THEN <<Member(K_nin, RawArray(op.NotIn))>> ELSE << >>)
        \o (IF Len(op.Greater) > 0 THEN <<Member(K_gt, JRaw(op.Greater))>> ELSE << >>)
        \o (IF Len(op.GreaterOrEqual) > 0
            THEN <<Member(K_gte, JRaw(op.GreaterOrEqual))>> ELSE << >>)
        \o (IF Len(op.Less) > 0 THEN <<Member(K_lt, JRaw(op.Less))>> ELSE << >>)
        \o (IF Len(op.LessOrEqual) > 0
            THEN <<Member(K_lte, JRaw(op.LessOrEqual))>> ELSE << >>)
        \o (IF Len(op.Regex) > 0
            THEN <<Member(K_regex, JRaw(QuoteString(op.Regex)))>> ELSE << >>))

\* Comparison.MarshalJSON: json.Marshal(c.value.normalize()).  normalize reads
\* the receiver's fields, so a nil c.value is a nil pointer dereference.
MarshalComparison(c) ==
    IF c.isnil THEN MFail({"panic"})
    ELSE LET n == normalize(c.op) IN
         IF n.isnil THEN MOk(JNull) ELSE MOk(MarshalOp(n.op))

\* The bytes of a JSON document.
RECURSIVE Render(_)
RECURSIVE RenderElems(_, _)
RECURSIVE RenderMembers(_, _)
RenderElems(xs, i) ==
    IF i > Len(xs) THEN << >>
    ELSE (IF i > 1 THEN <<",">> ELSE << >>) \o Render(xs[i]) \o RenderElems(xs, i + 1)
RenderMembers(ms, i) ==
    IF i > Len(ms) THEN << >>
    ELSE (IF i > 1 THEN <<",">> ELSE << >>)
         \o QuoteString(ms[i].key) \o <<":">> \o Render(ms[i].val)
         \o RenderMembers(ms, i + 1)
Render(j) ==
    CASE j.k = "raw" -> j.s
      [] j.k = "arr" -> <<"[">> \o RenderElems(j.v, 1) \o <<"]">>
      [] OTHER -> <<"{">> \o RenderMembers(j.v, 1) \o <<"}">>

\* The values of the member `key` of an object: << >> when it has none.
MemberValues(j, key) ==
    IF j.k # "obj" THEN << >>
    ELSE LET idx == {i \in 1..Len(j.v) : j.v[i].key = key} IN
         IF idx = {} THEN << >> ELSE <<j.v[CHOOSE i \in idx : TRUE].val>>

\* encoding/json into a []json.RawMessage field: [err, sl].
DecodeRawSlice(vs) ==
    CASE Len(vs) = 0 -> [err |-> FALSE, sl |-> NilSlice]
      [] vs[1].k = "arr" ->
            [err |-> FALSE,
             sl |-> MakeSlice([i \in 1..Len(vs[1].v) |-> Render(vs[1].v[i])])]
      [] vs[1] = JNull -> [err |-> FALSE, sl |-> NilSlice]
      [] OTHER -> [err |-> TRUE, sl |-> NilSlice]

\* encoding/json into a json.RawMessage field: the bytes of the value.
DecodeRaw(vs) == IF Len(vs) = 0 THEN << >> ELSE Render(vs[1])

\* encoding/json into a string field: [err, str].
DecodeString(vs) ==
    CASE Len(vs) = 0 -> [err |-> FALSE, str |-> << >>]
      [] vs[1] = JNull -> [err |-> FALSE, str |-> << >>]
      [] vs[1].k = "raw" /\ Len(vs[1].s) >= 2 /\ vs[1].s[1] = "\"" ->
            [err |-> FALSE, str |-> SubSeq(vs[1].s, 2, Len(vs[1].s) - 1)]
      [] OTHER -> [err |-> TRUE, str |-> << >>]

\* Comparison.UnmarshalJSON into a zero Comparison: [err, cmp].
UnmarshalComparison(doc) ==
    IF doc.k = "obj"
    THEN LET in == DecodeRawSlice(MemberValues(doc, K_in))
             nin == DecodeRawSlice(MemberValues(doc, K_nin))
             re == DecodeString(MemberValues(doc, K_regex))
             ne == DecodeRaw(MemberValues(doc, K_ne))
             target ==
                 [In |-> in.sl,
                  NotIn |-> IF ne # << >> THEN Append_(nin.sl, <<ne>>) ELSE nin.sl,
                  Greater |-> DecodeRaw(MemberValues(doc, K_gt)),
                  GreaterOrEqual |-> DecodeRaw(MemberValues(doc, K_gte)),
                  Less |-> DecodeRaw(MemberValues(doc, K_lt)),
                  LessOrEqual |-> DecodeRaw(MemberValues(doc, K_lte)),
                  Regex |-> re.str]
         IN  IF in.err \/ nin.err \/ re.err
             THEN [err |-> TRUE, cmp |-> ZeroComparison]
             ELSE [err |-> FALSE, cmp |-> normalize(target)]
    ELSE [err |-> FALSE,
          cmp |-> normalize([ZeroOp EXCEPT !.In = MakeSlice(<<Render(doc)>>)])]

-----------------------------------------------------------------------------
(* Filter                                                                   *)

\* A Comparisons map with no entry.
NoPaths == [k \in {} |-> ZeroComparison]

\* ResourceFilter{} / Filter{}: the zero value.
ZeroFilter == [and |-> NilSlice, or |-> NilSlice, paths |-> NoPaths]

\* params.FilterAll
FilterAll == ZeroFilter

\* ResourceFilter.matchAll
matchAll(f) ==
    SliceLen(f.and) = 0 /\ SliceLen(f.or) = 0 /\ Cardinality(DOMAIN f.paths) = 0

\* query.Field / CompareField(path, cmp).filter(): a map with one entry.
Field(path, cmp) ==
    [and |-> NilSlice, or |-> NilSlice, paths |-> [k \in {path} |-> cmp]]

\* Comparisons.filter(): a filter over the given map.
CompareFields(paths) == [and |-> NilSlice, or |-> NilSlice, paths |-> paths]

\* And's loop without the case that flattens and skips: every argument is
\* appended as it is.
RECURSIVE AndLoopNoFlatten(_, _, _)
AndLoopNoFlatten(acc, filters, i) ==
    IF i > Len(filters) THEN acc
    ELSE AndLoopNoFlatten(Append_(acc, <<filters[i]>>), filters, i + 1)

\* The loop of And over filters[i..]: the and list built.
RECURSIVE AndLoop(_, _, _)
AndLoop(acc, filters, i) ==
    IF i > Len(filters) THEN acc
    ELSE LET f == filters[i] IN
         IF SliceLen(f.or) = 0 /\ Cardinality(DOMAIN f.paths) = 0
         THEN AndLoop(Append_(acc, f.and.elems), filters, i + 1)
         ELSE AndLoop(Append_(acc, <<f>>), filters, i + 1)

\* And(filters...)
And(filters) ==
    LET list == AndLoop(MakeSlice(<< >>), filters, 1) IN
    IF SliceLen(list) = 1 THEN list.elems[1]
    ELSE [and |-> list, or |-> NilSlice, paths |-> NoPaths]

\* Or's loop without the case that flattens: every argument is appended as
\* it is.
RECURSIVE QueryOrLoopNoFlatten(_, _, _)
QueryOrLoopNoFlatten(acc, filters, i) ==
    IF i > Len(filters) THEN acc
    ELSE QueryOrLoopNoFlatten(Append_(acc, <<filters[i]>>), filters, i + 1)

\* The loop of query.Or (and of the filter package's Or) over filters[i..].
RECURSIVE QueryOrLoop(_, _, _)
QueryOrLoop(acc, filters, i) ==
    IF i > Len(filters) THEN acc
    ELSE LET f == filters[i] IN
         IF SliceLen(f.and) = 0 /\ Cardinality(DOMAIN f.paths) = 0
         THEN QueryOrLoop(Append_(acc, f.or.elems), filters, i + 1)
         ELSE QueryOrLoop(Append_(acc, <<f>>), filters, i + 1)

\* query.Or(filters...)
QueryOr(filters) ==
    LET list == QueryOrLoop(MakeSlice(<< >>), filters, 1) IN
    IF SliceLen(list) = 1 THEN list.elems[1]
    ELSE [and |-> NilSlice, or |-> list, paths |-> NoPaths]

\* params.Or(filters...): a match-all argument ends the loop.
ParamsOr(filters) ==
    IF \E i \in 1..Len(filters) : matchAll(filters[i]) THEN ZeroFilter
    ELSE QueryOr(filters)

Or(p, filters) == IF p = "query" THEN QueryOr(filters) ELSE ParamsOr(filters)

\* ResourceQuery.Where / the filter of the query returned.
Where(queryFilter, filter) == And(<<queryFilter, filter>>)

\* Byte order of the characters that occur in keys.
ByteOrder ==
    <<"$", ".", "0", "1", "2", "3", "4", "5", "6", "7", "8", "9",
      "a", "b", "c", "d", "e", "f", "g", "h", "i", "j", "k", "l", "m",
      "n", "o", "p", "q", "r", "s", "t", "u", "v", "w", "x", "y", "z">>
ByteRank(c) == CHOOSE i \in 1..Len(ByteOrder) : ByteOrder[i] = c

\* a < b as Go compares strings.
RECURSIVE KeyLess(_, _)
KeyLess(a, b) ==
    CASE Len(b) = 0 -> FALSE
      [] Len(a) = 0 -> TRUE
      [] a[1] # b[1] -> ByteRank(a[1]) < ByteRank(b[1])
      [] OTHER -> KeyLess(Tail(a), Tail(b))

\* json.Marshal of a map[string]json.RawMessage: the members by ascending key.
RECURSIVE SortedMembers(_, _)
SortedMembers(keys, m) ==
    IF keys = {} THEN << >>
    ELSE LET k == CHOOSE x \in keys : \A y \in keys \ {x} : KeyLess(x, y) IN
         <<Member(k, m[k])>> \o SortedMembers(keys \ {k}, m)

\* strings.HasPrefix(k, "$")
HasDollarPrefix(k) == Len(k) >= 1 /\ k[1] = "$"

\* The ways the paths loop of MarshalJSON can fail: a map is ranged over in
\* no fixed order, so any failing key may be the one met first.
PathFailures(paths) ==
    {"err" : k \in {x \in DOMAIN paths : HasDollarPrefix(x)}}
    \cup {"panic" : k \in {x \in DOMAIN paths :
                              ~HasDollarPrefix(x) /\ paths[x].isnil}}

\* Filter.MarshalJSON / ResourceFilter.MarshalJSON.  json.Marshal of a slice
\* of filters is null for a nil slice, else the array of the elements, and
\* fails as its first failing element does.
RECURSIVE MarshalFilter(_)
RECURSIVE MarshalFilters(_)
MarshalFilters(sl) ==
    IF sl.isnil THEN MOk(JNull)
    ELSE LET outs == [i \in 1..Len(sl.elems) |-> MarshalFilter(sl.elems[i])]
             bad == {i \in 1..Len(outs) : outs[i].sts # {"ok"}}
         IN  IF bad # {}
             THEN MFail((outs[CHOOSE i \in bad : \A j \in bad : i <= j]).sts \ {"ok"})
             ELSE MOk(JArr([i \in 1..Len(outs) |-> outs[i].json]))

MarshalFilter(f) ==
    IF PathFailures(f.paths) # {} THEN MFail(PathFailures(f.paths))
    ELSE LET pm == [k \in DOMAIN f.paths |-> MarshalComparison(f.paths[k]).json]
             andJ == MarshalFilters(f.and)
             \* the $or branch marshals f.and
             orJ == MarshalFilters(f.and)
             hasAnd == SliceLen(f.and) > 0
             hasOr == SliceLen(f.or) > 0
         IN  CASE hasAnd /\ andJ.sts # {"ok"} -> MFail(andJ.sts)
               [] hasOr /\ orJ.sts # {"ok"} -> MFail(orJ.sts)
               [] OTHER ->
                    LET keys == DOMAIN f.paths
                                \cup (IF hasAnd THEN {K_and} ELSE {})
                                \cup (IF hasOr THEN {K_or} ELSE {})
                        m == [k \in keys |->
                                 CASE k = K_and /\ hasAnd -> andJ.json
                                   [] k = K_or /\ hasOr -> orJ.json
                                   [] OTHER -> pm[k]]
                    IN  MOk(JObj(SortedMembers(keys, m)))

\* The single-entry simplification at the end of UnmarshalJSON.
Simplify(f) ==
    CASE Cardinality(DOMAIN f.paths) = 0 /\ SliceLen(f.or) = 0 /\ SliceLen(f.and) = 1 ->
            [and |-> NilSlice, or |-> f.and.elems[1].or, paths |-> f.and.elems[1].paths]
      [] Cardinality(DOMAIN f.paths) = 0 /\ SliceLen(f.or) = 1 /\ SliceLen(f.and) = 0 ->
            [and |-> f.or.elems[1].and, or |-> NilSlice, paths |-> f.or.elems[1].paths]
      [] OTHER -> f

\* Filter.UnmarshalJSON / ResourceFilter.UnmarshalJSON into a zero filter:
\* [err, f].  encoding/json into a []Filter field: null leaves it nil, an
\* array decodes every element with UnmarshalJSON.
RECURSIVE UnmarshalFilter(_)
RECURSIVE UnmarshalFilters(_)
UnmarshalFilters(vs) ==
    CASE Len(vs) = 0 -> [err |-> FALSE, sl |-> NilSlice]
      [] vs[1].k = "arr" ->
            LET outs == [i \in 1..Len(vs[1].v) |-> UnmarshalFilter(vs[1].v[i])] IN
            [err |-> \E i \in 1..Len(outs) : outs[i].err,
             sl |-> MakeSlice([i \in 1..Len(outs) |-> outs[i].f])]
      [] vs[1] = JNull -> [err |-> FALSE, sl |-> NilSlice]
      [] OTHER -> [err |-> TRUE, sl |-> NilSlice]

UnmarshalFilter(doc) ==
    CASE doc = JNull -> [err |-> FALSE, f |-> ZeroFilter]
      [] doc.k # "obj" -> [err |-> TRUE, f |-> ZeroFilter]
      [] OTHER ->
            LET and == UnmarshalFilters(MemberValues(doc, K_and))
                or == UnmarshalFilters(MemberValues(doc, K_or))
                rest == {i \in 1..Len(doc.v) : doc.v[i].key \notin {K_and, K_or}}
                keys == {doc.v[i].key : i \in rest}
                val(k) == doc.v[CHOOSE i \in rest : doc.v[i].key = k].val
                bad == \E k \in keys :
                          \/ Len(k) > 0 /\ k[1] = "$"
                          \/ UnmarshalComparison(val(k)).err
            IN  IF and.err \/ or.err \/ bad THEN [err |-> TRUE, f |-> ZeroFilter]
                ELSE [err |-> FALSE,
                      f |-> Simplify([and |-> and.sl, or |-> or.sl,
                                      paths |-> [k \in keys |->
                                                    UnmarshalComparison(val(k)).cmp]])]

-----------------------------------------------------------------------------
(* Inputs                                                                   *)

SeqsUpTo(S, n) == UNION {[1..m -> S] : m \in 0..n}

P_id == <<"i", "d">>
P_dollar == <<"$", "x">>
PathNames == {P_id, P_dollar}

\* The comparisons put on the field paths of the filters built.
LeafCmps == {Equal(GoStr(<<"a">>)).cmp, Equal(GoNil).cmp}

\* The single-path filters, and one filter over a map of two paths.
Leaves ==
    {Field(p, c) : p \in PathNames, c \in LeafCmps}
    \cup {CompareFields([k \in PathNames |->
                            IF k = P_id THEN Equal(GoNil).cmp
                            ELSE Equal(GoStr(<<"a">>)).cmp])}

\* The filters every call can be handed (beside the last result).
BaseFilters == {FilterAll, Field(P_id, Equal(GoStr(<<"a">>)).cmp)}

\* The documents handed to UnmarshalJSON: filter objects with or without
\* path keys, a $and array and a $or array, each also as the only element of
\* a $and or a $or array; and documents that are no filter object.
TokA == <<"\"", "a", "\"">>
LeafDoc1 == JObj(<<Member(P_id, JRaw(TokA))>>)
LeafDoc2 == JObj(<<Member(P_id, JObj(<<Member(K_gt, JRaw(<<"0">>))>>))>>)
ArrayParts(key) ==
    {<< >>, <<Member(key, JArr(<<LeafDoc1>>))>>,
     <<Member(key, JArr(<<LeafDoc1, LeafDoc2>>))>>}
ElementDocs ==
    {JObj(a \o o \o p) :
        a \in ArrayParts(K_and), o \in ArrayParts(K_or),
        p \in {<< >>, <<Member(P_id, JRaw(TokA))>>}}
WrapDoc(key, e) == JObj(<<Member(key, JArr(<<e>>))>>)
UnmarshalDocs ==
    ElementDocs
    \cup {WrapDoc(K_and, e) : e \in ElementDocs}
    \cup {WrapDoc(K_or, e) : e \in ElementDocs}
    \cup {JNull, JArr(<< >>), JObj(<<Member(P_dollar, JRaw(TokA))>>)}

RECURSIVE FilterSize(_)
RECURSIVE SizeSum(_, _)
SizeSum(elems, i) ==
    IF i > Len(elems) THEN 0 ELSE FilterSize(elems[i]) + SizeSum(elems, i + 1)
FilterSize(f) == 1 + SizeSum(f.and.elems, 1) + SizeSum(f.or.elems, 1)

MNone == [sts |-> {}, json |-> JRaw(<< >>)]

-----------------------------------------------------------------------------
(* The filter algebra: each step is one call; fop records the call.         *)

FilterCall(op, args, res) ==
    [op |-> op, args |-> args, res |-> res, out |-> MNone, doc |-> JNull,
     err |-> FALSE]

FilterIdle == FilterCall("init", << >>, ZeroFilter)
CmpIdle ==
    [op |-> "init", vals |-> << >>, args |-> << >>, panic |-> FALSE,
     res |-> ZeroComparison, out |-> MNone, doc |-> JNull, err |-> FALSE]

\* No array allocated and no filter held.
MemIdle == [arrays |-> << >>, held |-> << >>, snap |-> << >>, spare |-> 0]

(* No data-frame, timestamp or duration call has been made. *)
FrameIdle == [op |-> "init"]

TsIdle == [op |-> "init"]

DurIdle == [op |-> "init"]

\* No label, automation or publishing call has been made.
LabIdle == [op |-> "init"]

AutIdle == [op |-> "init"]

PubIdle == [op |-> "init"]

\* The filters a call can be handed: the base filters and the last result.
FilterPool == BaseFilters \cup {fop.res}

FilterInit ==
    /\ pkg \in Packages
    /\ fop = FilterIdle
    /\ cop = CmpIdle
    /\ mem = MemIdle
    /\ frame = FrameIdle
    /\ tsop = TsIdle
    /\ dop = DurIdle
    /\ lab = LabIdle
    /\ aut = AutIdle
    /\ pub = PubIdle

DoField ==
    \E p \in PathNames, c \in LeafCmps :
        /\ fop' = FilterCall("Field", << >>, Field(p, c))
        /\ UNCHANGED <<pkg, cop, mem, frame, tsop, dop, lab, aut, pub>>

DoCompareFields ==
    \E l \in Leaves :
        /\ Cardinality(DOMAIN l.paths) > 1
        /\ fop' = FilterCall("CompareFields", << >>, CompareFields(l.paths))
        /\ UNCHANGED <<pkg, cop, mem, frame, tsop, dop, lab, aut, pub>>

DoAnd ==
    \E args \in SeqsUpTo(FilterPool, MaxArgs) :
        /\ FilterSize(And(args)) <= MaxNodes
        /\ fop' = FilterCall("And", args, And(args))
        /\ UNCHANGED <<pkg, cop, mem, frame, tsop, dop, lab, aut, pub>>

DoOr ==
    \E args \in SeqsUpTo(FilterPool, MaxArgs) :
        /\ FilterSize(Or(pkg, args)) <= MaxNodes
        /\ fop' = FilterCall("Or", args, Or(pkg, args))
        /\ UNCHANGED <<pkg, cop, mem, frame, tsop, dop, lab, aut, pub>>

DoWhere ==
    \E filter \in FilterPool :
        /\ pkg = "fields"
        /\ FilterSize(Where(fop.res, filter)) <= MaxNodes
        /\ fop' = FilterCall("Where", <<fop.res, filter>>, Where(fop.res, filter))
        /\ UNCHANGED <<pkg, cop, mem, frame, tsop, dop, lab, aut, pub>>

\* A Filter written as a struct literal: the fields of query.Filter are
\* exported (those of params.ResourceFilter are not).
DoLiteral ==
    \E list \in SeqsUpTo(BaseFilters \ {FilterAll}, MaxArgs), which \in {"and", "or"} :
        /\ pkg = "query"
        /\ Len(list) >= 1
        /\ fop' = FilterCall("Literal", << >>,
                       IF which = "and"
                       THEN [and |-> MakeSlice(list), or |-> NilSlice, paths |-> NoPaths]
                       ELSE [and |-> NilSlice, or |-> MakeSlice(list), paths |-> NoPaths])
        /\ UNCHANGED <<pkg, cop, mem, frame, tsop, dop, lab, aut, pub>>

DoMarshalFilter ==
    /\ fop.op # "MarshalJSON"
    /\ fop' = [op |-> "MarshalJSON", args |-> <<fop.res>>, res |-> fop.res,
               out |-> MarshalFilter(fop.res), doc |-> JNull, err |-> FALSE]
    /\ UNCHANGED <<pkg, cop, mem, frame, tsop, dop, lab, aut, pub>>

\* UnmarshalJSON into a zero filter, of a document handed in or of the
\* document the last MarshalJSON wrote.
DoUnmarshalFilter ==
    \E d \in UnmarshalDocs \cup
              (IF fop.op = "MarshalJSON" /\ fop.out.sts = {"ok"}
               THEN {fop.out.json} ELSE {}) :
        /\ fop' = [op |-> "UnmarshalJSON", args |-> << >>,
                   res |-> UnmarshalFilter(d).f, out |-> MNone, doc |-> d,
                   err |-> UnmarshalFilter(d).err]
        /\ UNCHANGED <<pkg, cop, mem, frame, tsop, dop, lab, aut, pub>>

FilterNext ==
    \/ DoField
    \/ DoCompareFields
    \/ DoAnd
    \/ DoOr
    \/ DoWhere
    \/ DoLiteral
    \/ DoMarshalFilter
    \/ DoUnmarshalFilter

Spec == FilterInit /\ [][FilterNext]_vars

-----------------------------------------------------------------------------
(* The comparison builders: each step is one call; cop records the call.    *)

\* The values handed to the builders taking one value, and to the variadic
\* ones.
GoValues ==
    {GoNil, GoStr(<<"a">>), GoInt(0), GoInt(1), GoInt(-1), GoBool(TRUE),
     GoIntSlice(1), GoEmptyMap}
ListValues == {GoNil, GoStr(<<"a">>), GoInt(0), GoInt(-1), GoIntSlice(1)}
Patterns == {<< >>, <<"a">>}

\* The comparisons every MergeOperators call can be handed (beside the last
\* comparison built).
BaseCmps == {ZeroComparison, Equal(GoInt(1)).cmp, GreaterOrEqual(GoInt(0)).cmp}
BuilderOps ==
    {"Equal", "NotEqual", "In", "NotIn", "Greater", "GreaterOrEqual", "Less",
     "LessOrEqual", "Range", "Regex"}
CmpPool ==
    BaseCmps \cup (IF cop.op \in BuilderOps /\ ~cop.panic THEN {cop.res} ELSE {})

CmpCall(op, vals, b) ==
    [op |-> op, vals |-> vals, args |-> << >>, panic |-> b.panic,
     res |-> b.cmp, out |-> MNone, doc |-> JNull, err |-> FALSE]

CmpInit ==
    /\ pkg \in Packages
    /\ cop = CmpIdle
    /\ fop = FilterIdle
    /\ mem = MemIdle
    /\ frame = FrameIdle
    /\ tsop = TsIdle
    /\ dop = DurIdle
    /\ lab = LabIdle
    /\ aut = AutIdle
    /\ pub = PubIdle

DoEqual ==
    \E v \in GoValues :
        /\ cop' = CmpCall("Equal", <<v>>, Equal(v))
        /\ UNCHANGED <<pkg, fop, mem, frame, tsop, dop, lab, aut, pub>>

DoNotEqual ==
    \E v \in GoValues :
        /\ cop' = CmpCall("NotEqual", <<v>>, NotEqual(v))
        /\ UNCHANGED <<pkg, fop, mem, frame, tsop, dop, lab, aut, pub>>

DoIn ==
    \E vals \in SeqsUpTo(ListValues, MaxElems) :
        /\ cop' = CmpCall("In", vals, In(vals))
        /\ UNCHANGED <<pkg, fop, mem, frame, tsop, dop, lab, aut, pub>>

DoNotIn ==
    \E vals \in SeqsUpTo(ListValues, MaxElems) :
        /\ cop' = CmpCall("NotIn", vals, NotIn(pkg, vals))
        /\ UNCHANGED <<pkg, fop, mem, frame, tsop, dop, lab, aut, pub>>

DoGreater ==
    \E v \in GoValues :
        /\ cop' = CmpCall("Greater", <<v>>, Greater(v))
        /\ UNCHANGED <<pkg, fop, mem, frame, tsop, dop, lab, aut, pub>>

DoGreaterOrEqual ==
    \E v \in GoValues :
        /\ cop' = CmpCall("GreaterOrEqual", <<v>>, GreaterOrEqual(v))
        /\ UNCHANGED <<pkg, fop, mem, frame, tsop, dop, lab, aut, pub>>

DoLess ==
    \E v \in GoValues :
        /\ cop' = CmpCall("Less", <<v>>, Less(v))
        /\ UNCHANGED <<pkg, fop, mem, frame, tsop, dop, lab, aut, pub>>

DoLessOrEqual ==
    \E v \in GoValues :
        /\ cop' = CmpCall("LessOrEqual", <<v>>, LessOrEqual(v))
        /\ UNCHANGED <<pkg, fop, mem, frame, tsop, dop, lab, aut, pub>>

DoRange ==
    \E gte \in GoValues, lt \in GoValues :
        /\ cop' = CmpCall("Range", <<gte, lt>>, Range(gte, lt))
        /\ UNCHANGED <<pkg, fop, mem, frame, tsop, dop, lab, aut, pub>>

DoRegex ==
    \E pattern \in Patterns :
        /\ cop' = CmpCall("Regex", <<GoStr(pattern)>>, Regex(pattern))
        /\ UNCHANGED <<pkg, fop, mem, frame, tsop, dop, lab, aut, pub>>

DoMergeOperators ==
    \E cmps \in SeqsUpTo(CmpPool, MaxMergeArgs) :
        /\ cop' = [op |-> "MergeOperators", vals |-> << >>, args |-> cmps,
                   panic |-> FALSE, res |-> MergeOperators(cmps), out |-> MNone,
                   doc |-> JNull, err |-> FALSE]
        /\ UNCHANGED <<pkg, fop, mem, frame, tsop, dop, lab, aut, pub>>

\* Comparison.MarshalJSON of the last comparison returned.
DoMarshalComparison ==
    /\ cop.op # "MarshalJSON"
    /\ ~cop.panic
    /\ cop' = [op |-> "MarshalJSON", vals |-> cop.vals, args |-> <<cop.res>>,
               panic |-> FALSE, res |-> cop.res,
               out |-> MarshalComparison(cop.res), doc |-> JNull, err |-> FALSE]
    /\ UNCHANGED <<pkg, fop, mem, frame, tsop, dop, lab, aut, pub>>

\* The values whose encodings are handed to UnmarshalJSON as bare scalars.
ScalarValues == {GoNil, GoStr(<<"a">>), GoInt(0), GoInt(-1), GoBool(TRUE)}

\* The objects handed to UnmarshalJSON: $ne alone, after $nin, and beside
\* $in.
NeDocs ==
    UNION {{JObj(<<Member(K_ne, JRaw(JSONMarshalValue(v)))>>),
            JObj(<<Member(K_nin, JArr(<<JRaw(IntToDec(1))>>)),
                   Member(K_ne, JRaw(JSONMarshalValue(v)))>>),
            JObj(<<Member(K_in, JArr(<<JRaw(IntToDec(1))>>)),
                   Member(K_ne, JRaw(JSONMarshalValue(v)))>>)} : v \in ScalarValues}
    \cup {JObj(<<Member(K_nin, JArr(<<JRaw(IntToDec(1))>>))>>), LeafDoc2.v[1].val}

\* Comparison.UnmarshalJSON into a zero Comparison, of the encoding of a
\* scalar (vals keeps the scalar) or of an object.
DoUnmarshalComparison ==
    \/ \E v \in ScalarValues :
          /\ cop' = [op |-> "UnmarshalJSON", vals |-> <<v>>, args |-> << >>,
                     panic |-> FALSE,
                     res |-> UnmarshalComparison(JRaw(JSONMarshalValue(v))).cmp,
                     out |-> MNone, doc |-> JRaw(JSONMarshalValue(v)),
                     err |-> UnmarshalComparison(JRaw(JSONMarshalValue(v))).err]
          /\ UNCHANGED <<pkg, fop, mem, frame, tsop, dop, lab, aut, pub>>
    \/ \E d \in NeDocs :
          /\ cop' = [op |-> "UnmarshalJSON", vals |-> << >>, args |-> << >>,
                     panic |-> FALSE, res |-> UnmarshalComparison(d).cmp,
                     out |-> MNone, doc |-> d, err |-> UnmarshalComparison(d).err]
          /\ UNCHANGED <<pkg, fop, mem, frame, tsop, dop, lab, aut, pub>>

CmpNext ==
    \/ DoEqual
    \/ DoNotEqual
    \/ DoIn
    \/ DoNotIn
    \/ DoGreater
    \/ DoGreaterOrEqual
    \/ DoLess
    \/ DoLessOrEqual
    \/ DoRange
    \/ DoRegex
    \/ DoMergeOperators
    \/ DoMarshalComparison
    \/ DoUnmarshalComparison

SpecCmp == CmpInit /\ [][CmpNext]_vars

-----------------------------------------------------------------------------
(* Filters in memory: slices are headers over shared backing arrays.  mem    *)
(* holds the arrays allocated, the filters the caller holds, what each       *)
(* serialized to when it was returned, and the call that returned it.        *)

\* A slice header: arr = 0 is the nil slice.
NilHdr == [arr |-> 0, len |-> 0, cap |-> 0]
\* The zero filter struct.
ZeroH == [paths |-> NoPaths, and |-> NilHdr, or |-> NilHdr]
ZeroCells(n) == [i \in 1..n |-> ZeroH]

\* The capacity append adds beyond what it needs when it reallocates (the
\* runtime's growth policy decides).
SpareCaps == {0, 1}

\* make([]T, 0, n): [arrays, hdr].
HMake(arrays, n) ==
    [arrays |-> Append(arrays, ZeroCells(n)),
     hdr |-> [arr |-> Len(arrays) + 1, len |-> 0, cap |-> n]]

\* The elements of a slice.
HCells(arrays, hdr) ==
    IF hdr.arr = 0 THEN << >> ELSE SubSeq(arrays[hdr.arr], 1, hdr.len)

\* append(hdr, cells...): written into the backing array when the capacity
\* allows, into a new array otherwise.  [arrays, hdr].
HAppend(arrays, hdr, cells, spare) ==
    LET n == Len(cells) IN
    IF n = 0 THEN [arrays |-> arrays, hdr |-> hdr]
    ELSE IF hdr.len + n <= hdr.cap
    THEN [arrays |->
              [arrays EXCEPT ![hdr.arr] =
                  [i \in 1..hdr.cap |->
                      IF i > hdr.len /\ i <= hdr.len + n
                      THEN cells[i - hdr.len] ELSE @[i]]],
          hdr |-> [hdr EXCEPT !.len = hdr.len + n]]
    ELSE [arrays |-> Append(arrays, HCells(arrays, hdr) \o cells \o ZeroCells(spare)),
          hdr |-> [arr |-> Len(arrays) + 1, len |-> hdr.len + n,
                   cap |-> hdr.len + n + spare]]

\* The loop of And over filters[i..], st = [arrays, hdr] of newF.and.
RECURSIVE HAndLoop(_, _, _, _)
HAndLoop(st, filters, i, spare) ==
    IF i > Len(filters) THEN st
    ELSE LET f == filters[i] IN
         IF f.or.len = 0 /\ Cardinality(DOMAIN f.paths) = 0
         THEN HAndLoop(HAppend(st.arrays, st.hdr, HCells(st.arrays, f.and), spare),
                       filters, i + 1, spare)
         ELSE HAndLoop(HAppend(st.arrays, st.hdr, <<f>>, spare), filters, i + 1, spare)

\* And(filters...): [arrays, f].
HAnd(arrays, filters, spare) ==
    LET st == HAndLoop(HMake(arrays, Len(filters)), filters, 1, spare) IN
    [arrays |-> st.arrays,
     f |-> IF st.hdr.len = 1 THEN st.arrays[st.hdr.arr][1]
           ELSE [paths |-> NoPaths, and |-> st.hdr, or |-> NilHdr]]

HMatchAll(f) == f.and.len = 0 /\ f.or.len = 0 /\ Cardinality(DOMAIN f.paths) = 0

\* The loop of Or over filters[i..]: [arrays, hdr, all], all set when
\* params.Or met a match-all argument and returned.
RECURSIVE HOrLoop(_, _, _, _, _)
HOrLoop(p, st, filters, i, spare) ==
    IF i > Len(filters) THEN [arrays |-> st.arrays, hdr |-> st.hdr, all |-> FALSE]
    ELSE LET f == filters[i] IN
         CASE p # "query" /\ HMatchAll(f) ->
                [arrays |-> st.arrays, hdr |-> st.hdr, all |-> TRUE]
           [] f.and.len = 0 /\ Cardinality(DOMAIN f.paths) = 0 ->
                HOrLoop(p, HAppend(st.arrays, st.hdr, HCells(st.arrays, f.or), spare),
                        filters, i + 1, spare)
           [] OTHER ->
                HOrLoop(p, HAppend(st.arrays, st.hdr, <<f>>, spare), filters, i + 1, spare)

\* Or(filters...): [arrays, f].
HOr(p, arrays, filters, spare) ==
    LET st == HOrLoop(p, HMake(arrays, Len(filters)), filters, 1, spare) IN
    [arrays |-> st.arrays,
     f |-> CASE st.all -> ZeroH
             [] st.hdr.len = 1 -> st.arrays[st.hdr.arr][1]
             [] OTHER -> [paths |-> NoPaths, and |-> NilHdr, or |-> st.hdr]]

\* Where with its receiver passed by reference: the query the caller holds
\* is the one assigned to.
PointerReceiver(held, q, res) == IF q <= 0 THEN held ELSE [held EXCEPT ![q] = res]

\* Where has a value receiver: the assignment to q.query.Filter is to the
\* callee's copy, the filters the caller holds stay as they are.
ValueReceiver(held, q, res) == held

\* The filter a struct in memory stands for.
RECURSIVE ToValue(_, _)
ToValue(arrays, f) ==
    [and |-> IF f.and.arr = 0 THEN NilSlice
             ELSE MakeSlice([i \in 1..f.and.len |-> ToValue(arrays, arrays[f.and.arr][i])]),
     or |-> IF f.or.arr = 0 THEN NilSlice
            ELSE MakeSlice([i \in 1..f.or.len |-> ToValue(arrays, arrays[f.or.arr][i])]),
     paths |-> f.paths]

\* Field(path, cmp): a struct with a new map.
HFieldOf(path, cmp) == [paths |-> [k \in {path} |-> cmp], and |-> NilHdr, or |-> NilHdr]

\* An argument: i > 0 is the i-th filter held, 0 the zero filter, -1 a Field
\* call written in place.
ArgAt(i) ==
    CASE i = 0 -> ZeroH
      [] i = -1 -> HFieldOf(P_id, Equal(GoStr(<<"a">>)).cmp)
      [] OTHER -> mem.held[i]
ArgIndexes == (-1)..Len(mem.held)
ArgsAt(idxs) == [i \in 1..Len(idxs) |-> ArgAt(idxs[i])]

\* The caller keeps the filter returned.
Keep(arrays, held, f) ==
    [arrays |-> arrays,
     held |-> Append(held, f),
     snap |-> Append(mem.snap, MarshalFilter(ToValue(arrays, f))),
     spare |-> mem.spare]

HeapInit ==
    /\ pkg \in Packages
    /\ fop = FilterIdle
    /\ cop = CmpIdle
    /\ \E spare \in SpareCaps : mem = [MemIdle EXCEPT !.spare = spare]
    /\ frame = FrameIdle
    /\ tsop = TsIdle
    /\ dop = DurIdle
    /\ lab = LabIdle
    /\ aut = AutIdle
    /\ pub = PubIdle

HField ==
    \E p \in PathNames :
        /\ Len(mem.held) < MaxHeld
        /\ mem' = Keep(mem.arrays, mem.held, HFieldOf(p, Equal(GoStr(<<"a">>)).cmp))
        /\ UNCHANGED <<pkg, cop, fop, frame, tsop, dop, lab, aut, pub>>

HAndCall ==
    \E idxs \in SeqsUpTo(ArgIndexes, MaxArgs) :
        /\ Len(mem.held) < MaxHeld
        /\ LET r == HAnd(mem.arrays, ArgsAt(idxs), mem.spare) IN
           mem' = Keep(r.arrays, mem.held, r.f)
        /\ UNCHANGED <<pkg, cop, fop, frame, tsop, dop, lab, aut, pub>>

HOrCall ==
    \E idxs \in SeqsUpTo(ArgIndexes, MaxArgs) :
        /\ Len(mem.held) < MaxHeld
        /\ LET r == HOr(pkg, mem.arrays, ArgsAt(idxs), mem.spare) IN
           mem' = Keep(r.arrays, mem.held, r.f)
        /\ UNCHANGED <<pkg, cop, fop, frame, tsop, dop, lab, aut, pub>>

HWhere ==
    \E q \in 0..Len(mem.held), filter \in ArgIndexes :
        /\ pkg = "fields"
        /\ Len(mem.held) < MaxHeld
        /\ LET r == HAnd(mem.arrays, <<ArgAt(q), ArgAt(filter)>>, mem.spare) IN
           mem' = Keep(r.arrays, ValueReceiver(mem.held, q, r.f), r.f)
        /\ UNCHANGED <<pkg, cop, fop, frame, tsop, dop, lab, aut, pub>>

HeapNext ==
    \/ HField
    \/ HAndCall
    \/ HOrCall
    \/ HWhere

SpecHeap == HeapInit /\ [][HeapNext]_vars

-----------------------------------------------------------------------------
(* Properties of the filter algebra                                         *)

EmptyObject == JObj(<< >>)

IsPureAnd(f) == SliceLen(f.or) = 0 /\ Cardinality(DOMAIN f.paths) = 0
IsPureOr(f) == SliceLen(f.and) = 0 /\ Cardinality(DOMAIN f.paths) = 0

\* The arguments with every pure AND (resp. pure OR) replaced by its children.
RECURSIVE FlatAnd(_, _)
FlatAnd(args, i) ==
    IF i > Len(args) THEN << >>
    ELSE (IF IsPureAnd(args[i]) THEN args[i].and.elems ELSE <<args[i]>>)
         \o FlatAnd(args, i + 1)
RECURSIVE FlatOr(_, _)
FlatOr(args, i) ==
    IF i > Len(args) THEN << >>
    ELSE (IF IsPureOr(args[i]) THEN args[i].or.elems ELSE <<args[i]>>)
         \o FlatOr(args, i + 1)

IsAndOf(res, list) ==
    IF Len(list) = 1 THEN res = list[1]
    ELSE res.and.elems = list /\ SliceLen(res.or) = 0 /\ DOMAIN res.paths = {}
IsOrOf(res, list) ==
    IF Len(list) = 1 THEN res = list[1]
    ELSE res.or.elems = list /\ SliceLen(res.and) = 0 /\ DOMAIN res.paths = {}

\* No AND child is a pure AND and no OR child a pure OR, at any level.
RECURSIVE Flattened(_)
Flattened(f) ==
    /\ \A i \in 1..Len(f.and.elems) :
          ~IsPureAnd(f.and.elems[i]) /\ Flattened(f.and.elems[i])
    /\ \A i \in 1..Len(f.or.elems) :
          ~IsPureOr(f.or.elems[i]) /\ Flattened(f.or.elems[i])

\* Some leaf path of the tree starts with `$`.
RECURSIVE HasDollarPath(_)
HasDollarPath(f) ==
    \/ \E k \in DOMAIN f.paths : HasDollarPrefix(k)
    \/ \E i \in 1..Len(f.and.elems) : HasDollarPath(f.and.elems[i])
    \/ \E i \in 1..Len(f.or.elems) : HasDollarPath(f.or.elems[i])

MatchAllArgs == {i \in 1..Len(fop.args) : matchAll(fop.args[i])}

\* C1: whenever an argument of Or is the match-all filter, whatever its
\* position and whatever the other arguments (of valid paths), the result
\* serializes to {}.
CX_C1 ==
    (/\ fop.op = "Or"
     /\ MatchAllArgs # {}
     /\ \A i \in 1..Len(fop.args) : ~HasDollarPath(fop.args[i]))
        => MarshalFilter(fop.res) = MOk(EmptyObject)

\* C2: a filter with OR children whose children all serialize, serializes to
\* an object whose $or member is the array of the serialized OR children, in
\* order.
CX_C2 ==
    (/\ fop.op = "MarshalJSON"
     /\ SliceLen(fop.res.or) > 0
     /\ fop.out.sts = {"ok"}
     /\ \A i \in 1..Len(fop.res.or.elems) :
           MarshalFilter(fop.res.or.elems[i]).sts = {"ok"})
        => MemberValues(fop.out.json, K_or) =
              <<JArr([i \in 1..Len(fop.res.or.elems) |->
                         MarshalFilter(fop.res.or.elems[i]).json])>>

\* C3 as stated: And over one filter X and match-all filters, in any
\* position, serializes exactly as X does (the same document, or the same
\* failure), for every filter X.
CX_C3 ==
    \A i \in 1..Len(fop.args) :
        (/\ fop.op = "And"
         /\ Len(fop.args) >= 2
         /\ MatchAllArgs = (1..Len(fop.args)) \ {i})
            => MarshalFilter(fop.res) = MarshalFilter(fop.args[i])

\* C3 amended: the same for every X that is not a pure AND of exactly one
\* sub-filter.
Thm_C3 ==
    \A i \in 1..Len(fop.args) :
        (/\ fop.op = "And"
         /\ Len(fop.args) >= 2
         /\ MatchAllArgs = (1..Len(fop.args)) \ {i}
         /\ ~(IsPureAnd(fop.args[i]) /\ SliceLen(fop.args[i].and) = 1))
            => MarshalFilter(fop.res) = MarshalFilter(fop.args[i])

Wit_C3 ==
    /\ fop.op = "And"
    /\ Len(fop.args) = 2
    /\ fop.args[1] = FilterAll
    /\ SliceLen(fop.args[2].and) = 2
    /\ fop.res.and.elems = fop.args[2].and.elems
    /\ MarshalFilter(fop.res).sts = {"ok"}

CX_C6 ==
    (fop.op = "MarshalJSON" /\ "panic" \notin fop.out.sts)
        => (fop.out.sts = {"err"} <=> HasDollarPath(fop.res))

\* The same paths and the same AND and OR children.
SameFilter(a, b) ==
    a.paths = b.paths /\ a.and.elems = b.and.elems /\ a.or.elems = b.or.elems

IsWrapDoc(d) ==
    /\ d.k = "obj"
    /\ Len(d.v) = 1
    /\ d.v[1].key \in {K_and, K_or}
    /\ d.v[1].val.k = "arr"
    /\ Len(d.v[1].val.v) = 1

\* C5: deserializing {"$and":[e]} or {"$or":[e]}, e a document that
\* deserializes, yields the filter e deserializes to: its paths, its AND
\* children and its OR children.
CX_C5 ==
    (/\ fop.op = "UnmarshalJSON"
     /\ IsWrapDoc(fop.doc)
     /\ ~UnmarshalFilter(fop.doc.v[1].val.v[1]).err)
        => /\ ~fop.err
           /\ SameFilter(fop.res, UnmarshalFilter(fop.doc.v[1].val.v[1]).f)

-----------------------------------------------------------------------------
(* Properties of the comparisons                                            *)

\* The JSON array of the values handed to a builder.
ValuesArray(vals) == JArr([i \in 1..Len(vals) |-> JRaw(JSONMarshalValue(vals[i]))])

\* C8: NotIn(v1..vn) and NotEqual(v), n >= 1, serialize to the object whose
\* only key is $nin, holding [v1..vn]; it has no $in key.
CX_C8 ==
    (cop.op \in {"NotIn", "NotEqual"} /\ ~cop.panic /\ Len(cop.vals) >= 1)
        => MarshalComparison(cop.res) = MOk(JObj(<<Member(K_nin, ValuesArray(cop.vals))>>))

Slots == {"In", "NotIn", "Greater", "GreaterOrEqual", "Less", "LessOrEqual", "Regex"}

\* Whether a comparison sets a slot, and the value it sets it to; the zero
\* value (equals null) sets $in to [null].
SlotSet(c, s) ==
    IF c.isnil THEN s = "In"
    ELSE IF s \in {"In", "NotIn"} THEN SliceLen(c.op[s]) > 0
    ELSE c.op[s] # << >>
SlotValue(c, s) ==
    IF c.isnil THEN (IF s = "In" THEN <<TokNull>> ELSE << >>)
    ELSE IF s \in {"In", "NotIn"} THEN c.op[s].elems
    ELSE c.op[s]

Setters(s) == {i \in 1..Len(cop.args) : SlotSet(cop.args[i], s)}
Rightmost(S) == CHOOSE i \in S : \A j \in S : j <= i

\* C9: after MergeOperators, every slot that some argument sets has the value
\* of the rightmost argument setting it, the zero-value comparison counting
\* as setting $in to [null].
Thm_C9 ==
    cop.op = "MergeOperators" =>
        \A s \in Slots :
            Setters(s) # {} =>
                /\ SlotSet(cop.res, s)
                /\ SlotValue(cop.res, s) = SlotValue(cop.args[Rightmost(Setters(s))], s)

Wit_C9 ==
    /\ cop.op = "MergeOperators"
    /\ Cardinality(Setters("In")) = 2
    /\ SlotValue(cop.args[1], "In") # SlotValue(cop.args[2], "In")
    /\ ~cop.args[2].isnil
    /\ SlotValue(cop.res, "In") = SlotValue(cop.args[2], "In")

\* A comparison that means "equals null": the zero value, or $in holding
\* exactly one null and nothing else.
EqualsNull(c) ==
    \/ c.isnil
    \/ c.op = [ZeroOp EXCEPT !.In = MakeSlice(<<TokNull>>)]

\* C10: MarshalJSON of a comparison that means "equals null" writes null.
CX_C10 ==
    (cop.op = "MarshalJSON" /\ EqualsNull(cop.res)) => cop.out = MOk(JNull)

-----------------------------------------------------------------------------
(* Properties of the filters in memory                                      *)

\* C7: whatever Field, And, Or and Where calls follow, every filter the
\* caller holds (every argument and every result) serializes as it did when
\* it was returned.
Thm_C7 ==
    \A i \in 1..Len(mem.held) :
        MarshalFilter(ToValue(mem.arrays, mem.held[i])) = mem.snap[i]

\* A result with AND children was composed further: a later result lists
\* the same children and more, in an array of its own.
Wit_C7 ==
    \E i \in 1..Len(mem.held), j \in 1..Len(mem.held) :
        /\ i < j
        /\ mem.held[i].and.len >= 2
        /\ mem.held[j].and.len > mem.held[i].and.len
        /\ mem.held[j].and.arr # mem.held[i].and.arr
        /\ SubSeq(HCells(mem.arrays, mem.held[j].and), 1, mem.held[i].and.len)
               = HCells(mem.arrays, mem.held[i].and)

\* The JSON type a Go value encodes to.
JSONType(v) ==
    CASE v.kind = "nil" -> "null"
      [] v.kind = "string" -> "string"
      [] v.kind = "int" -> "number"
      [] v.kind = "bool" -> "boolean"
      [] v.kind = "slice" -> "array"
      [] OTHER -> "object"

SimpleTypes == {"string", "number", "boolean", "null"}
OrderedTypes == {"string", "number"}

\* C11: Equal, NotEqual, In and NotIn panic exactly when some value encodes
\* to an array or an object; Greater, GreaterOrEqual, Less, LessOrEqual and
\* Range exactly when some value encodes to neither a string nor a number.
CX_C11 ==
    /\ cop.op \in {"Equal", "NotEqual", "In", "NotIn"} =>
          (cop.panic <=> \E i \in 1..Len(cop.vals) : JSONType(cop.vals[i]) \notin SimpleTypes)
    /\ cop.op \in {"Greater", "GreaterOrEqual", "Less", "LessOrEqual", "Range"} =>
          (cop.panic <=> \E i \in 1..Len(cop.vals) : JSONType(cop.vals[i]) \notin OrderedTypes)

\* The elements of the array under `key` of an object, as bytes.
GivenElems(d, key) ==
    IF MemberValues(d, key) = << >> THEN << >>
    ELSE [i \in 1..Len(MemberValues(d, key)[1].v) |-> Render(MemberValues(d, key)[1].v[i])]

\* C12: UnmarshalJSON of a bare scalar s yields a comparison that serializes
\* as Equal(s) does; UnmarshalJSON of an object with $ne: v yields one whose
\* $nin list is the elements given under $nin and v, and whose serialization
\* has no $ne key.
CX_C12 ==
    cop.op = "UnmarshalJSON" =>
        /\ ~cop.err
        /\ Len(cop.vals) = 1 =>
              /\ ~Equal(cop.vals[1]).panic
              /\ MarshalComparison(cop.res) = MarshalComparison(Equal(cop.vals[1]).cmp)
        /\ (Len(cop.vals) = 0 /\ MemberValues(cop.doc, K_ne) # << >>) =>
              /\ SlotValue(cop.res, "NotIn")
                    = GivenElems(cop.doc, K_nin) \o <<Render(MemberValues(cop.doc, K_ne)[1])>>
              /\ MarshalComparison(cop.res).sts = {"ok"}
              /\ MemberValues(MarshalComparison(cop.res).json, K_ne) = << >>

-----------------------------------------------------------------------------
(* Timestamps                                                               *)
(*                                                                          *)
(* A Timestamp is an int64 of microseconds since the Unix epoch.  Its JSON  *)
(* form is the RFC 3339 text of time.Time, a string; the text is a tuple of *)
(* characters computed from the number, and parsed back from it.            *)

Abs(a) == IF a < 0 THEN -a ELSE a

\* Go's / and % on integers truncate toward zero.
GoQuo(a, b) ==
    LET q == Abs(a) \div Abs(b) IN IF (a < 0) # (b < 0) THEN -q ELSE q
GoRem(a, b) == a - b * GoQuo(a, b)

\* time.UnixMicro(usec): time.Unix(usec/1e6, (usec%1e6)*1e3); Unix moves a
\* negative nanosecond part into the seconds.
UnixMicro(usec) ==
    LET sec == GoQuo(usec, 1000000)
        us == GoRem(usec, 1000000)
    IN  IF us < 0 THEN [sec |-> sec - 1, us |-> us + 1000000]
        ELSE [sec |-> sec, us |-> us]

\* The civil date of a day number (days since 1970-01-01), proleptic
\* Gregorian calendar, as time.Time computes it.
CivilFromDays(days) ==
    LET z == days + 719468
        era == z \div 146097
        doe == z - era * 146097
        yoe == (doe - doe \div 1460 + doe \div 36524 - doe \div 146096) \div 365
        doy == doe - (365 * yoe + yoe \div 4 - yoe \div 100)
        mp == (5 * doy + 2) \div 153
        d == doy - (153 * mp + 2) \div 5 + 1
        m == IF mp < 10 THEN mp + 3 ELSE mp - 9
        y == yoe + era * 400 + (IF m <= 2 THEN 1 ELSE 0)
    IN  [year |-> y, month |-> m, day |-> d]

\* The day number of a civil date.
DaysFromCivil(y0, m, d) ==
    LET y == IF m <= 2 THEN y0 - 1 ELSE y0
        era == y \div 400
        yoe == y - era * 400
        doy == (153 * (IF m > 2 THEN m - 3 ELSE m + 9) + 2) \div 5 + d - 1
        doe == yoe * 365 + yoe \div 4 - yoe \div 100 + doy
    IN  era * 146097 + doe - 719468

\* n written with at least w digits.
RECURSIVE Pad(_, _)
Pad(n, w) ==
    IF w <= 1 THEN NatToDec(n)
    ELSE IF n < 10 THEN [i \in 1..(w - 1) |-> "0"] \o NatToDec(n)
    ELSE Pad(n \div 10, w - 1) \o <<Digits[(n % 10) + 1]>>

\* The fraction of a second of RFC3339Nano: trailing zeros are dropped, a zero
\* fraction is not written.
RECURSIVE TrimZeros(_)
TrimZeros(s) ==
    IF Len(s) > 0 /\ s[Len(s)] = "0" THEN TrimZeros(SubSeq(s, 1, Len(s) - 1))
    ELSE s

Fraction(us) ==
    LET f == TrimZeros(Pad(us, 6)) IN IF f = << >> THEN << >> ELSE <<".">> \o f

\* Timestamp.MarshalText: [err, text].  time.Time.MarshalText refuses a year
\* outside 0..9999.
TimestampMarshalText(ts) ==
    LET t == UnixMicro(ts)
        days == t.sec \div 86400
        rem == t.sec % 86400
        c == CivilFromDays(days)
    IN  IF c.year < 0 \/ c.year >= 10000 THEN [err |-> TRUE, text |-> << >>]
        ELSE [err |-> FALSE,
              text |-> Pad(c.year, 4) \o <<"-">> \o Pad(c.month, 2) \o <<"-">>
                         \o Pad(c.day, 2) \o <<"T">> \o Pad(rem \div 3600, 2)
                         \o <<":">> \o Pad((rem % 3600) \div 60, 2) \o <<":">>
                         \o Pad(rem % 60, 2) \o Fraction(t.us) \o <<"Z">>]

IsDigit(c) == \E i \in 1..10 : Digits[i] = c
DigitValue(c) == (CHOOSE i \in 1..10 : Digits[i] = c) - 1
AllDigits(s) == \A i \in 1..Len(s) : IsDigit(s[i])

RECURSIVE DecToNat(_)
DecToNat(s) ==
    IF Len(s) = 0 THEN 0
    ELSE 10 * DecToNat(SubSeq(s, 1, Len(s) - 1)) + DigitValue(s[Len(s)])

\* The microseconds of a fraction's digits: digits beyond the sixth are
\* nanoseconds, which t.UnixMicro() cuts off.
FractionMicros(ds) ==
    DecToNat(SubSeq(ds \o <<"0", "0", "0", "0", "0", "0">>, 1, 6))

DaysIn(y, m) ==
    CASE m \in {4, 6, 9, 11} -> 30
      [] m = 2 -> (IF y % 4 = 0 /\ (y % 100 # 0 \/ y % 400 = 0) THEN 29 ELSE 28)
      [] OTHER -> 31

\* Timestamp.UnmarshalText: [err, ts].  The text is an RFC 3339 date-time in
\* UTC ("Z"); anything else is refused.
TimestampUnmarshalText(s) ==
    LET n == Len(s)
        shape ==
            /\ n >= 20
            /\ AllDigits(SubSeq(s, 1, 4)) /\ s[5] = "-"
            /\ AllDigits(SubSeq(s, 6, 7)) /\ s[8] = "-"
            /\ AllDigits(SubSeq(s, 9, 10)) /\ s[11] = "T"
            /\ AllDigits(SubSeq(s, 12, 13)) /\ s[14] = ":"
            /\ AllDigits(SubSeq(s, 15, 16)) /\ s[17] = ":"
            /\ AllDigits(SubSeq(s, 18, 19))
            /\ s[n] = "Z"
            /\ n > 20 => (s[20] = "." /\ n >= 22 /\ AllDigits(SubSeq(s, 21, n - 1)))
        y == DecToNat(SubSeq(s, 1, 4))
        mo == DecToNat(SubSeq(s, 6, 7))
        d == DecToNat(SubSeq(s, 9, 10))
        h == DecToNat(SubSeq(s, 12, 13))
        mi == DecToNat(SubSeq(s, 15, 16))
        sec == DecToNat(SubSeq(s, 18, 19))
        us == IF n > 20 THEN FractionMicros(SubSeq(s, 21, n - 1)) ELSE 0
    IN  IF ~shape THEN [err |-> TRUE, ts |-> 0]
        ELSE IF mo \notin 1..12 \/ d \notin 1..DaysIn(y, mo) \/ h > 23 \/ mi > 59 \/ sec > 59
        THEN [err |-> TRUE, ts |-> 0]
        ELSE [err |-> FALSE,
              ts |-> ((DaysFromCivil(y, mo, d) * 86400 + h * 3600 + mi * 60 + sec)
                        * 1000000) + us]

-----------------------------------------------------------------------------
(* Data frames                                                              *)
(*                                                                          *)
(* A float64 is NaN, +Inf or Float(n), the float64 of the integer n.  A     *)
(* DataSeries is a function from the timestamps it holds to their values, a *)
(* DataFrame a function from its series keys to their series.  The          *)
(* repository carries the codec three times:                                *)
(*   "views.Ordered"  views.DataFrame of 2022, exported Ordered,            *)
(*   "views.ordered"  views.DataFrame of 2023, ordered over Timestamps,     *)
(*   "data.ordered"   data.Frame.                                           *)

NaN == [k |-> "nan", n |-> 0]
PosInf == [k |-> "inf", n |-> 0]
Float(n) == [k |-> "num", n |-> n]

Impls == {"views.Ordered", "views.ordered", "data.ordered"}

\* math.IsNaN
IsNaN(f) == f.k = "nan"

\* slices.Sort / sort.Slice of the keys of a set of timestamps.
RECURSIVE SortAscending(_)
SortAscending(S) ==
    IF S = {} THEN << >>
    ELSE LET lo == CHOOSE x \in S : \A y \in S : x <= y IN
         <<lo>> \o SortAscending(S \ {lo})

\* The timestamps gathered by the first loop of Ordered / Frame.ordered: every
\* key of every series.
AllKeys(df) == UNION {DOMAIN df[sid] : sid \in DOMAIN df}

\* DataFrame.Timestamps: the timestamps holding a value that is not NaN.
Timestamps(df) ==
    SortAscending({t \in AllKeys(df) :
                      \E sid \in DOMAIN df : t \in DOMAIN df[sid] /\ ~IsNaN(df[sid][t])})

\* The values loop without the NaN written where the series has no value: the
\* values of the series move up to the front.
ValuesAtCompact(series, times) ==
    LET present == SelectSeq(times, LAMBDA t : t \in DOMAIN series) IN
    [i \in 1..Len(present) |-> series[present[i]]]

\* The values loop of Ordered / ordered: one element for every time.
ValuesAt(series, times) ==
    [i \in 1..Len(times) |->
        IF times[i] \in DOMAIN series THEN series[times[i]] ELSE NaN]

\* A RawDataFrame: Times a slice of timestamps, Series a map of slices.
RawOf(times, series) == [Times |-> times, Series |-> series]

\* DataFrame.Ordered, DataFrame.ordered and Frame.ordered.
Ordered(impl, df) ==
    LET times == IF impl = "views.ordered" THEN Timestamps(df)
                 ELSE SortAscending(AllKeys(df))
    IN  RawOf(MakeSlice(times),
              [sid \in DOMAIN df |-> MakeSlice(ValuesAt(df[sid], times))])

\* Number.MarshalJSON: [err, tok].  json.Marshal refuses an infinite float64.
NumberMarshalJSON(f) ==
    CASE IsNaN(f) -> [err |-> FALSE, tok |-> TokNull]
      [] f = PosInf -> [err |-> TRUE, tok |-> << >>]
      [] OTHER -> [err |-> FALSE, tok |-> IntToDec(f.n)]

\* json.Marshal of a []Number.
MarshalNumbers(sl) ==
    IF sl.isnil THEN MOk(JNull)
    ELSE IF \E i \in 1..Len(sl.elems) : NumberMarshalJSON(sl.elems[i]).err
    THEN MFail({"err"})
    ELSE MOk(JArr([i \in 1..Len(sl.elems) |-> JRaw(NumberMarshalJSON(sl.elems[i]).tok)]))

\* json.Marshal of a []Timestamp: every element a JSON string.
MarshalTimes(sl) ==
    IF sl.isnil THEN MOk(JNull)
    ELSE IF \E i \in 1..Len(sl.elems) : TimestampMarshalText(sl.elems[i]).err
    THEN MFail({"err"})
    ELSE MOk(JArr([i \in 1..Len(sl.elems) |->
                      JRaw(QuoteString(TimestampMarshalText(sl.elems[i]).text))]))

K_times == <<"t", "i", "m", "e", "s">>
K_series == <<"s", "e", "r", "i", "e", "s">>

\* json.Marshal of a RawDataFrame: the fields in declaration order, the map
\* by ascending key.
MarshalRaw(raw) ==
    LET ts == MarshalTimes(raw.Times)
        ss == [sid \in DOMAIN raw.Series |-> MarshalNumbers(raw.Series[sid])]
    IN  IF ts.sts # {"ok"} \/ \E sid \in DOMAIN ss : ss[sid].sts # {"ok"}
        THEN MFail({"err"})
        ELSE MOk(JObj(<<Member(K_times, ts.json),
                        Member(K_series,
                               JObj(SortedMembers(DOMAIN ss,
                                                  [sid \in DOMAIN ss |-> ss[sid].json])))>>))

\* DataFrame.MarshalJSON / Frame.MarshalJSON
FrameMarshalJSON(impl, df) == MarshalRaw(Ordered(impl, df))

\* The number of values DataFrame() reads of a series when it never cuts the
\* length of the series to that of Times.
LoopLenUnclamped(values, times) == Len(values)

\* l of DataFrame(): len(values), cut to len(raw.Times).
LoopLen(values, times) ==
    IF Len(values) > Len(times) THEN Len(times) ELSE Len(values)

\* The loop of DataFrame() over the first l values of one series:
\* [panic, series].  Reading values[i] or raw.Times[i] past the end panics; a
\* later index overwrites an earlier one of the same timestamp.
SeriesUpTo(times, values, l) ==
    IF l > Len(values) \/ l > Len(times) THEN [panic |-> TRUE, series |-> << >>]
    ELSE LET used == {i \in 1..l : ~IsNaN(values[i])} IN
         [panic |-> FALSE,
          series |-> [t \in {times[i] : i \in used} |->
                         values[CHOOSE i \in used :
                                   /\ times[i] = t
                                   /\ \A j \in used : times[j] = t => j <= i]]]

\* RawDataFrame.DataFrame / rawDataFrame.DataFrame: [panic, df].
RawToDataFrame(raw) ==
    LET r == [sid \in DOMAIN raw.Series |->
                 SeriesUpTo(raw.Times.elems, raw.Series[sid].elems,
                            LoopLen(raw.Series[sid].elems, raw.Times.elems))]
    IN  [panic |-> \E sid \in DOMAIN r : r[sid].panic,
         df |-> [sid \in DOMAIN r |-> r[sid].series]]

\* A JSON number token of the model: an optional sign and digits.
IsNumberToken(tok) ==
    /\ Len(tok) >= 1
    /\ IF tok[1] = "-" THEN Len(tok) >= 2 /\ AllDigits(Tail(tok)) ELSE AllDigits(tok)

\* The null token put where a zero is decoded.
NumberUnmarshalNullAsZero(tok) ==
    CASE tok = TokNull -> [err |-> FALSE, f |-> Float(0)]
      [] IsNumberToken(tok) ->
            [err |-> FALSE,
             f |-> Float(IF tok[1] = "-" THEN -DecToNat(Tail(tok)) ELSE DecToNat(tok))]
      [] OTHER -> [err |-> TRUE, f |-> Float(0)]

\* Number.UnmarshalJSON: [err, f].
NumberUnmarshalJSON(tok) ==
    CASE tok = TokNull -> [err |-> FALSE, f |-> NaN]
      [] IsNumberToken(tok) ->
            [err |-> FALSE,
             f |-> Float(IF tok[1] = "-" THEN -DecToNat(Tail(tok)) ELSE DecToNat(tok))]
      [] OTHER -> [err |-> TRUE, f |-> Float(0)]

\* encoding/json into a []Number: [err, sl].
DecodeNumbers(j) ==
    CASE j = JNull -> [err |-> FALSE, sl |-> NilSlice]
      [] j.k = "arr" ->
            IF \E i \in 1..Len(j.v) : j.v[i].k # "raw" \/ NumberUnmarshalJSON(j.v[i].s).err
            THEN [err |-> TRUE, sl |-> NilSlice]
            ELSE [err |-> FALSE,
                  sl |-> MakeSlice([i \in 1..Len(j.v) |-> NumberUnmarshalJSON(j.v[i].s).f])]
      [] OTHER -> [err |-> TRUE, sl |-> NilSlice]

\* encoding/json into one Timestamp: a string goes through UnmarshalText, a
\* null leaves the zero value, anything else is a type error.
DecodeTimestamp(j) ==
    CASE j = JNull -> [err |-> FALSE, ts |-> 0]
      [] j.k = "raw" /\ Len(j.s) >= 2 /\ j.s[1] = "\"" ->
            TimestampUnmarshalText(SubSeq(j.s, 2, Len(j.s) - 1))
      [] OTHER -> [err |-> TRUE, ts |-> 0]

\* encoding/json into a []Timestamp: [err, sl].
DecodeTimes(j) ==
    CASE j = JNull -> [err |-> FALSE, sl |-> NilSlice]
      [] j.k = "arr" ->
            IF \E i \in 1..Len(j.v) : DecodeTimestamp(j.v[i]).err
            THEN [err |-> TRUE, sl |-> NilSlice]
            ELSE [err |-> FALSE,
                  sl |-> MakeSlice([i \in 1..Len(j.v) |-> DecodeTimestamp(j.v[i]).ts])]
      [] OTHER -> [err |-> TRUE, sl |-> NilSlice]

\* encoding/json into the map[string][]Number made by UnmarshalJSON:
\* [err, m].
DecodeSeries(j) ==
    CASE j = JNull -> [err |-> FALSE, m |-> << >>]
      [] j.k = "obj" ->
            LET keys == {j.v[i].key : i \in 1..Len(j.v)}
                d == [sid \in keys |-> DecodeNumbers(MemberValues(j, sid)[1])]
            IN  IF \E sid \in keys : d[sid].err THEN [err |-> TRUE, m |-> << >>]
                ELSE [err |-> FALSE, m |-> [sid \in keys |-> d[sid].sl]]
      [] OTHER -> [err |-> TRUE, m |-> << >>]

\* json.Unmarshal(b, &in) of UnmarshalJSON: [err, raw].
UnmarshalRaw(doc) ==
    CASE doc = JNull -> [err |-> FALSE, raw |-> RawOf(NilSlice, << >>)]
      [] doc.k = "obj" ->
            LET tv == MemberValues(doc, K_times)
                sv == MemberValues(doc, K_series)
                t == IF tv = << >> THEN [err |-> FALSE, sl |-> NilSlice]
                     ELSE DecodeTimes(tv[1])
                m == IF sv = << >> THEN [err |-> FALSE, m |-> << >>]
                     ELSE DecodeSeries(sv[1])
            IN  IF t.err \/ m.err THEN [err |-> TRUE, raw |-> RawOf(NilSlice, << >>)]
                ELSE [err |-> FALSE, raw |-> RawOf(t.sl, m.m)]
      [] OTHER -> [err |-> TRUE, raw |-> RawOf(NilSlice, << >>)]

\* DataFrame.UnmarshalJSON / Frame.UnmarshalJSON: [err, panic, df].
FrameUnmarshalJSON(doc) ==
    LET in == UnmarshalRaw(doc) IN
    IF in.err THEN [err |-> TRUE, panic |-> FALSE, df |-> << >>]
    ELSE [err |-> FALSE, panic |-> RawToDataFrame(in.raw).panic,
          df |-> RawToDataFrame(in.raw).df]

-----------------------------------------------------------------------------
(* The data-frame codec as a state machine: a behaviour is one call, and    *)
(* for MarshalJSON the decoding of what it wrote.                           *)

\* Most (key, timestamp) entries of a frame encoded.
MaxEntries == 3
\* Longest times and series arrays of a raw frame converted.
MaxRawLen == 2

SeriesKeys == {<<"a">>, <<"b">>}
\* Before the epoch, the epoch, and a time with a fraction of a second.
Stamps == {-1, 0, 1500000}
FrameValues == {NaN, PosInf, Float(0), Float(-2)}
RawValues == {NaN, Float(0), Float(5)}

SeriesOver(V) == UNION {[d -> V] : d \in SUBSET Stamps}

EntryCount(df) ==
    Cardinality({e \in (DOMAIN df) \X Stamps : e[2] \in DOMAIN df[e[1]]})

\* The frames encoded: every frame over the keys, of at most MaxEntries
\* entries.
Frames ==
    {df \in UNION {[ks -> SeriesOver(FrameValues)] : ks \in SUBSET SeriesKeys} :
        EntryCount(df) <= MaxEntries}

\* The raw frames converted and decoded: ordered or not, with or without
\* duplicates, series shorter and longer than times, nil slices.
RawSlices(S) == {NilSlice} \cup {MakeSlice(q) : q \in SeqsUpTo(S, MaxRawLen)}

RawFrames ==
    {RawOf(t, m) : t \in RawSlices(Stamps),
                   m \in UNION {[ks -> RawSlices(RawValues)] : ks \in SUBSET SeriesKeys}}

\* Documents that are not the wire form of any frame.
BadDocs ==
    {JNull, JArr(<< >>), JObj(<< >>),
     JObj(<<Member(K_times, JArr(<<JRaw(<<"0">>)>>))>>),
     JObj(<<Member(K_times, JArr(<<JNull>>)),
            Member(K_series, JObj(<<Member(<<"a">>, JArr(<<JRaw(<<"7">>)>>))>>))>>),
     JObj(<<Member(K_series, JObj(<<Member(<<"a">>, JArr(<<JRaw(<<"\"", "\"">>)>>))>>))>>)}

FrameCall(op, impl, df, raw, out, doc, dec) ==
    [op |-> op, impl |-> impl, df |-> df, raw |-> raw, out |-> out, doc |-> doc,
     err |-> dec.err, panic |-> dec.panic, res |-> dec.df]

NoDecode == [err |-> FALSE, panic |-> FALSE, df |-> << >>]

FrameInit ==
    /\ pkg \in Packages
    /\ fop = FilterIdle
    /\ cop = CmpIdle
    /\ mem = MemIdle
    /\ frame = FrameIdle
    /\ tsop = TsIdle
    /\ dop = DurIdle
    /\ lab = LabIdle
    /\ aut = AutIdle
    /\ pub = PubIdle

\* b, err := json.Marshal(df)
DoFrameMarshal ==
    /\ frame.op = "init"
    /\ \E impl \in Impls, df \in Frames :
          frame' = FrameCall("MarshalJSON", impl, df, Ordered(impl, df),
                             FrameMarshalJSON(impl, df), JNull, NoDecode)
    /\ UNCHANGED <<pkg, cop, fop, mem, tsop, dop, lab, aut, pub>>

\* err = json.Unmarshal(b, &df2) of the bytes just marshalled.
DoFrameDecodeOutput ==
    /\ frame.op = "MarshalJSON"
    /\ frame.out.sts = {"ok"}
    /\ frame' = FrameCall("RoundTrip", frame.impl, frame.df, frame.raw, frame.out,
                          frame.out.json, FrameUnmarshalJSON(frame.out.json))
    /\ UNCHANGED <<pkg, cop, fop, mem, tsop, dop, lab, aut, pub>>

\* err = json.Unmarshal(b, &df) of a document received.
DoFrameUnmarshal ==
    /\ frame.op = "init"
    /\ \E doc \in BadDocs \cup {MarshalRaw(raw).json : raw \in RawFrames} :
          frame' = FrameCall("UnmarshalJSON", "views.ordered", << >>,
                             RawOf(NilSlice, << >>), MNone, doc,
                             FrameUnmarshalJSON(doc))
    /\ UNCHANGED <<pkg, cop, fop, mem, tsop, dop, lab, aut, pub>>

\* df := raw.DataFrame()
DoRawToDataFrame ==
    /\ frame.op = "init"
    /\ \E raw \in RawFrames :
          frame' = FrameCall("DataFrame", "views.ordered", << >>, raw, MNone, JNull,
                             [err |-> FALSE, panic |-> RawToDataFrame(raw).panic,
                              df |-> RawToDataFrame(raw).df])
    /\ UNCHANGED <<pkg, cop, fop, mem, tsop, dop, lab, aut, pub>>

FrameNext ==
    \/ DoFrameMarshal
    \/ DoFrameDecodeOutput
    \/ DoFrameUnmarshal
    \/ DoRawToDataFrame

SpecFrame == FrameInit /\ [][FrameNext]_vars

-----------------------------------------------------------------------------
(* Properties of the data-frame codec                                       *)

Encoded == frame.op \in {"MarshalJSON", "RoundTrip"}

StrictlyAscending(q) == \A i \in 1..(Len(q) - 1) : q[i] < q[i + 1]

\* The timestamps at which some series of df holds a value that is not NaN.
NonNaNStamps(df) ==
    {t \in Stamps : \E sid \in DOMAIN df : t \in DOMAIN df[sid] /\ ~IsNaN(df[sid][t])}

\* C13: in the wire form of a sparse DataFrame, times is strictly ascending
\* and holds a timestamp if and only if at least one series holds a value that
\* is not NaN at that timestamp.
CX_C13 ==
    Encoded =>
        /\ StrictlyAscending(frame.raw.Times.elems)
        /\ {frame.raw.Times.elems[i] : i \in 1..SliceLen(frame.raw.Times)}
              = NonNaNStamps(frame.df)

RoundTrip == frame.op = "RoundTrip"

\* The entries of a series whose value is not NaN.
NonNaNEntries(series) ==
    [t \in {x \in DOMAIN series : ~IsNaN(series[x])} |-> series[t]]

AllFinite(df) ==
    \A sid \in DOMAIN df : \A t \in DOMAIN df[sid] : df[sid][t].k = "num"

\* C14, as stated: decoding the encoding of a DataFrame of finite values gives
\* the entries of the frame with their values and no other entry, and a series
\* key whose series holds no value that is not NaN is absent from the result.
CX_C14 ==
    (RoundTrip /\ AllFinite(frame.df)) =>
        /\ ~frame.err
        /\ \A sid \in DOMAIN frame.df :
              IF DOMAIN NonNaNEntries(frame.df[sid]) = {}
              THEN sid \notin DOMAIN frame.res
              ELSE sid \in DOMAIN frame.res /\ frame.res[sid] = frame.df[sid]
        /\ \A sid \in DOMAIN frame.res :
              sid \in DOMAIN frame.df /\ DOMAIN frame.res[sid] \subseteq DOMAIN frame.df[sid]

\* C14, amended: decoding the encoding of a DataFrame that encodes without
\* error gives a frame of the same series keys, in which every entry of the
\* frame whose value is not NaN is present with its value and no other entry
\* exists; a key whose series holds no such value stays, with an empty series.
Thm_C14 ==
    RoundTrip =>
        /\ ~frame.err
        /\ ~frame.panic
        /\ DOMAIN frame.res = DOMAIN frame.df
        /\ \A sid \in DOMAIN frame.df : frame.res[sid] = NonNaNEntries(frame.df[sid])

\* A frame went through the round trip with a series of no value that is not
\* NaN next to a series of two values, one of them before the epoch.
Wit_C14 ==
    /\ RoundTrip
    /\ \E sid \in DOMAIN frame.df : DOMAIN NonNaNEntries(frame.df[sid]) = {}
    /\ \E sid \in DOMAIN frame.df :
          /\ Cardinality(DOMAIN NonNaNEntries(frame.df[sid])) = 2
          /\ -1 \in DOMAIN frame.df[sid]
          /\ frame.res[sid] = frame.df[sid]

\* The document written by MarshalJSON, its times array and the array of a
\* series.
WireDoc == frame.out.json
WireTimes == MemberValues(WireDoc, K_times)[1].v
WireSeries(sid) == MemberValues(MemberValues(WireDoc, K_series)[1], sid)[1].v
WireTimeAt(i) == DecodeTimestamp(WireTimes[i]).ts

HasValueAt(series, t) == t \in DOMAIN series /\ ~IsNaN(series[t])

\* C15: in the wire form of a DataFrame every series array is as long as
\* times; its element at index i is the value the series has at times[i], and
\* null when the series has none (or NaN) there; decoding the null leaves the
\* series without an entry at times[i], and puts no zero there.
Thm_C15 ==
    /\ (Encoded /\ frame.out.sts = {"ok"}) =>
          \A sid \in DOMAIN frame.df :
              /\ Len(WireSeries(sid)) = Len(WireTimes)
              /\ \A i \in 1..Len(WireTimes) :
                    IF HasValueAt(frame.df[sid], WireTimeAt(i))
                    THEN /\ WireSeries(sid)[i] # JNull
                         /\ NumberUnmarshalJSON(WireSeries(sid)[i].s)
                               = [err |-> FALSE, f |-> frame.df[sid][WireTimeAt(i)]]
                    ELSE WireSeries(sid)[i] = JNull
    /\ RoundTrip =>
          \A sid \in DOMAIN frame.df : \A i \in 1..Len(WireTimes) :
              WireSeries(sid)[i] = JNull => WireTimeAt(i) \notin DOMAIN frame.res[sid]

\* A frame went through the round trip in which, at one index, one series
\* wrote a null and another wrote the value zero; the first came back without
\* an entry at that time, the second with its zero.
Wit_C15 ==
    /\ RoundTrip
    /\ \E a, b \in DOMAIN frame.df : \E i \in 1..Len(WireTimes) :
          /\ WireSeries(a)[i] = JNull
          /\ WireSeries(b)[i] = JRaw(<<"0">>)
          /\ WireTimeAt(i) \notin DOMAIN frame.res[a]
          /\ frame.res[b][WireTimeAt(i)] = Float(0)

Min(a, b) == IF a < b THEN a ELSE b

\* The indexes of a series that the claim lets the conversion use.
Matched(raw, sid) == 1..Min(SliceLen(raw.Series[sid]), SliceLen(raw.Times))

\* C16: converting a RawDataFrame to a DataFrame never panics or fails,
\* whatever the lengths of times and of the series arrays: a series gets an
\* entry at t exactly when one of its indexes below min(len(values),
\* len(times)) holds t in times and a value that is not NaN in the series, and
\* the entry is the value of (the last) such index; values past the end of
\* times are dropped and times past the end of a series give no entry.
Thm_C16 ==
    /\ frame.op \in {"DataFrame", "UnmarshalJSON"} => ~frame.panic
    /\ frame.op = "DataFrame" =>
          /\ ~frame.err
          /\ DOMAIN frame.res = DOMAIN frame.raw.Series
          /\ \A sid \in DOMAIN frame.res :
                LET times == frame.raw.Times.elems
                    values == frame.raw.Series[sid].elems
                    from(t) == {i \in Matched(frame.raw, sid) :
                                   times[i] = t /\ ~IsNaN(values[i])}
                IN  \A t \in Stamps :
                       /\ t \in DOMAIN frame.res[sid] <=> from(t) # {}
                       /\ from(t) # {} =>
                             \E i \in from(t) :
                                /\ frame.res[sid][t] = values[i]
                                /\ \A j \in from(t) : j <= i

\* A raw frame was converted in which one series is longer than times, its
\* last value a number, and another series is shorter than times.
Wit_C16 ==
    /\ frame.op = "DataFrame"
    /\ ~frame.panic
    /\ \E a, b \in DOMAIN frame.raw.Series :
          /\ SliceLen(frame.raw.Series[a]) > SliceLen(frame.raw.Times)
          /\ ~IsNaN(frame.raw.Series[a].elems[SliceLen(frame.raw.Series[a])])
          /\ SliceLen(frame.raw.Series[b]) < SliceLen(frame.raw.Times)
          /\ Cardinality(DOMAIN frame.res[a]) = SliceLen(frame.raw.Times)
          /\ DOMAIN frame.res[b] = {}

-----------------------------------------------------------------------------
(* Timestamp.Truncate                                                       *)
(*                                                                          *)
(* OriginTime is 946857600000000 and does not fit the integers of the       *)
(* checker, so a timestamp is written here as its distance from OriginTime: *)
(* ts = OriginTime + rel, with rel small enough that ts - OriginTime does   *)
(* not wrap an int64.  The repository carries Truncate twice: with a        *)
(* FixedDuration d, which counts microseconds (src/data/time.go), and with  *)
(* a time.Duration d, which counts nanoseconds (the older data package).    *)

\* Furthest timestamp from OriginTime, in microseconds.
MaxRel == 7
\* Widest bucket, in microseconds.
MaxWidth == 3

TruncateImpls == {"FixedDuration", "time.Duration"}

\* Timestamp.Truncate(d) of OriginTime + rel, as a distance from OriginTime.
\* Timestamp(d) converts the number d holds, whatever its unit.
Truncate(rel, d) ==
    IF d = 0 THEN rel
    ELSE rel - GoRem(rel, d)

\* d expressed in microseconds: FixedDuration holds them;
\* time.Duration.Microseconds() divides the nanoseconds by 1000.
Microseconds(impl, d) == IF impl = "FixedDuration" THEN d ELSE GoQuo(d, 1000)

\* The bucket widths handed to Truncate: whole microseconds of either sign,
\* zero, and for a time.Duration one width that is not a whole microsecond.
Widths(impl) ==
    IF impl = "FixedDuration" THEN -MaxWidth..MaxWidth
    ELSE {1000 * k : k \in -MaxWidth..MaxWidth} \cup {1500}

TsInit ==
    /\ pkg \in Packages
    /\ fop = FilterIdle
    /\ cop = CmpIdle
    /\ mem = MemIdle
    /\ frame = FrameIdle
    /\ tsop = TsIdle
    /\ dop = DurIdle
    /\ lab = LabIdle
    /\ aut = AutIdle
    /\ pub = PubIdle

\* result := ts.Truncate(d)
DoTruncate ==
    /\ \E impl \in TruncateImpls, rel \in -MaxRel..MaxRel :
          \E d \in Widths(impl) :
             tsop' = [op |-> "Truncate", impl |-> impl, rel |-> rel, d |-> d,
                      w |-> Microseconds(impl, d), res |-> Truncate(rel, d)]
    /\ UNCHANGED <<pkg, cop, fop, mem, frame, dop, lab, aut, pub>>

TsNext == DoTruncate

SpecTs == TsInit /\ [][TsNext]_vars

\* C17: for a timestamp before or after the origin and a positive bucket width
\* d of w microseconds, Truncate gives OriginTime + w * floor((ts -
\* OriginTime) / w), so that result <= ts < result + w.
CX_C17 ==
    (tsop.op = "Truncate" /\ tsop.d > 0 /\ tsop.w > 0) =>
        /\ tsop.res = tsop.w * (tsop.rel \div tsop.w)
        /\ tsop.res <= tsop.rel
        /\ tsop.rel < tsop.res + tsop.w

\* C18: for a bucket width that is zero or negative, Truncate returns the
\* timestamp unchanged.
CX_C18 ==
    (tsop.op = "Truncate" /\ tsop.d <= 0) => tsop.res = tsop.rel

-----------------------------------------------------------------------------
(* Durations                                                                *)
(*                                                                          *)
(* A time.Duration is an int64 of nanoseconds; an hour of them does not fit *)
(* the integers of the checker, so a duration is written [s, ns]: s whole   *)
(* seconds and ns nanoseconds below a second, both of the sign of the       *)
(* duration.  A CalendarDuration is [months, duration].  The repository     *)
(* carries the duration types three times:                                  *)
(*   "old"  FixedDuration with MarshalJSON (part_011, first file),          *)
(*   "mid"  src/fields/duration.go,                                         *)
(*   "new"  part_011, second file: the one with ErrMixedCalendarDuration.   *)

DurGens == {"old", "mid", "new"}

Dur(sec, ns) == [s |-> sec, ns |-> ns]
DurZero == Dur(0, 0)
\* a + b of two durations that are not negative.
DurAdd(a, b) ==
    Dur(a.s + b.s + ((a.ns + b.ns) \div 1000000000), (a.ns + b.ns) % 1000000000)
\* d * sign
DurTimes(d, sign) == Dur(d.s * sign, d.ns * sign)
DurIsNeg(d) == d.s < 0 \/ d.ns < 0

CalendarDuration(months, duration) == [months |-> months, duration |-> duration]
ZeroCalendar == CalendarDuration(0, DurZero)
\* CalendarDuration.IsZero
IsZero(cd) == cd.duration = DurZero /\ cd.months = 0

LowerCase == <<"p", "t", "y", "m", "w", "d", "h", "s">>
UpperCase == <<"P", "T", "Y", "M", "W", "D", "H", "S">>
\* strings.ToUpper
ToUpper(s) ==
    [i \in 1..Len(s) |->
        IF \E j \in 1..Len(LowerCase) : LowerCase[j] = s[i]
        THEN UpperCase[CHOOSE j \in 1..Len(LowerCase) : LowerCase[j] = s[i]]
        ELSE s[i]]

\* \d+ at the head of s: the longest run of digits.
RECURSIVE DigitPrefix(_)
DigitPrefix(s) ==
    IF Len(s) = 0 \/ ~IsDigit(s[1]) THEN << >> ELSE <<s[1]>> \o DigitPrefix(Tail(s))

Drop(s, n) == SubSeq(s, n + 1, Len(s))

\* A part that no designated number matches.
BadPart == [n |-> << >>, f |-> << >>, c |-> "?"]

\* The designated numbers of s, in the order written: a part is [n, f, c] for
\* the digits n, the digits f of a fraction (<< >> when there is none) and the
\* designator c; the "T" is a part of its own, without digits; BadPart ends
\* the parts where s is no designated number.
RECURSIVE PartsOf(_)
PartsOf(s) ==
    IF Len(s) = 0 THEN << >>
    ELSE IF s[1] = "T"
    THEN <<[n |-> << >>, f |-> << >>, c |-> "T"]>> \o PartsOf(Tail(s))
    ELSE LET n == DigitPrefix(s)
             r1 == Drop(s, Len(n))
             dot == Len(r1) > 0 /\ r1[1] = "."
             f == IF dot THEN DigitPrefix(Tail(r1)) ELSE << >>
             r2 == IF dot THEN Drop(r1, 1 + Len(f)) ELSE r1
         IN  IF Len(n) = 0 \/ (dot /\ Len(f) = 0) \/ Len(r2) = 0
             THEN <<BadPart>>
             ELSE <<[n |-> n, f |-> f, c |-> r2[1]]>> \o PartsOf(Tail(r2))

\* The designated numbers of a duration text after its "P": [ok, parts].
Components(s) ==
    IF \E p \in {PartsOf(s)} : \E i \in 1..Len(p) : p[i] = BadPart
    THEN [ok |-> FALSE, parts |-> << >>]
    ELSE [ok |-> TRUE, parts |-> PartsOf(s)]

\* The capture group a part falls in, by its place in the pattern; 0 when the
\* pattern has no group for it.  yearToFraction has the groups years and
\* months, weekToFraction has not.
GroupOf(parts, i, yearToFraction) ==
    LET afterT == \E j \in 1..(i - 1) : parts[j].c = "T"
        c == parts[i].c
        whole == parts[i].f = << >>
    IN  CASE c = "T" -> (IF afterT THEN 0 ELSE 5)
          [] c = "Y" /\ ~afterT /\ whole -> (IF yearToFraction THEN 1 ELSE 0)
          [] c = "M" /\ ~afterT /\ whole -> (IF yearToFraction THEN 2 ELSE 0)
          [] c = "W" /\ ~afterT /\ whole -> 3
          [] c = "D" /\ ~afterT /\ whole -> 4
          [] c = "H" /\ afterT /\ whole -> 6
          [] c = "M" /\ afterT /\ whole -> 7
          [] c = "S" /\ afterT -> 8
          [] OTHER -> 0

\* The sign and the designated numbers of an upper-cased text: [ok, neg, parts].
Split(s) ==
    LET neg == Len(s) > 0 /\ s[1] = "-"
        r == IF neg THEN Tail(s) ELSE s
    IN  IF Len(r) > 0 /\ r[1] = "P"
        THEN [ok |-> Components(Tail(r)).ok, neg |-> neg,
              parts |-> Components(Tail(r)).parts]
        ELSE [ok |-> FALSE, neg |-> FALSE, parts |-> << >>]

\* Every part has a group of the pattern and the groups come in its order.
InOrder(parts, yearToFraction) ==
    /\ \A i \in 1..Len(parts) : GroupOf(parts, i, yearToFraction) # 0
    /\ \A i \in 1..(Len(parts) - 1) :
          GroupOf(parts, i, yearToFraction) < GroupOf(parts, i + 1, yearToFraction)

\* FindStringSubmatch of patternYearToFraction / patternWeekToFraction on the
\* upper-cased text: [ok, neg, parts], ok FALSE when matches == nil.
Match(text, yearToFraction) ==
    CHOOSE m \in {IF c.ok /\ InOrder(c.parts, yearToFraction) THEN c
                  ELSE [ok |-> FALSE, neg |-> FALSE, parts |-> << >>] :
                     c \in {Split(ToUpper(text))}} : TRUE

MaxInt64Digits ==
    <<"9", "2", "2", "3", "3", "7", "2", "0", "3", "6", "8", "5", "4", "7", "7", "5", "8", "0", "7">>

RECURSIVE StripZeros(_)
StripZeros(ds) == IF Len(ds) > 1 /\ ds[1] = "0" THEN StripZeros(Tail(ds)) ELSE ds

RECURSIVE DigitsGreater(_, _)
DigitsGreater(a, b) ==
    IF Len(a) = 0 THEN FALSE
    ELSE IF a[1] # b[1] THEN DigitValue(a[1]) > DigitValue(b[1])
    ELSE DigitsGreater(Tail(a), Tail(b))

\* strconv.ParseInt(ds, 10, 64) returns an error: the number is out of range.
ParseIntFails(ds) ==
    LET d == StripZeros(ds) IN
    Len(d) > 19 \/ (Len(d) = 19 /\ DigitsGreater(d, MaxInt64Digits))

\* The seconds n.f of a "fractions" group as the decimal number written,
\* cut after the ninth digit of the fraction.
DecimalSeconds(n, f) ==
    Dur(DecToNat(n), DecToNat(SubSeq(f \o [i \in 1..9 |-> "0"], 1, 9)))

\* strconv.ParseFloat gives the float64 nearest to the decimal written and
\* df * float64(time.Second) the float64 nearest to the product, which for a
\* decimal such as 8.2 (float64 8.19999999999999929) lies just below the whole
\* number of nanoseconds.  The texts <<n, f>> of the fractions parsed here
\* for which it does, by IEEE 754 double arithmetic: 8.2, 8.199999999 and
\* 8.199999998; for 0, 0.001, 1.5, 68.2 and 8.199999997 the product is whole.
BelowWhole ==
    {<<<<"8">>, <<"2">>>>,
     <<<<"8">>, <<"1", "9", "9", "9", "9", "9", "9", "9", "9">>>>,
     <<<<"8">>, <<"1", "9", "9", "9", "9", "9", "9", "9", "8">>>>}

\* time.Duration(df * float64(time.Second)) of the digits of a "fractions"
\* group: the conversion to an integer cuts the product towards zero.
FractionDuration(n, f) ==
    LET d == DecimalSeconds(n, f) IN
    IF <<StripZeros(n), TrimZeros(f)>> \in BelowWhole
    THEN (IF d.ns > 0 THEN Dur(d.s, d.ns - 1) ELSE Dur(d.s - 1, 999999999))
    ELSE d

\* The seconds of one unit of a group.
UnitSeconds(g) ==
    CASE g = 3 -> 7 * 24 * 3600
      [] g = 4 -> 24 * 3600
      [] g = 6 -> 3600
      [] g = 7 -> 60
      [] OTHER -> 0

\* One turn of the loop over the groups that matched: the part of digits n
\* and fraction f in group g, added to the sum r = [panic, cd] of the others.
AddPart(r, g, n, f) ==
    CASE g = 5 -> r
      [] g # 8 /\ ParseIntFails(n) -> [panic |-> TRUE, cd |-> ZeroCalendar]
      [] r.panic -> r
      [] g = 1 -> [r EXCEPT !.cd.months = @ + 12 * DecToNat(n)]
      [] g = 2 -> [r EXCEPT !.cd.months = @ + DecToNat(n)]
      [] g = 8 -> [r EXCEPT !.cd.duration = DurAdd(@, FractionDuration(n, f))]
      [] OTHER -> [r EXCEPT !.cd.duration =
                               DurAdd(@, Dur(DecToNat(n) * UnitSeconds(g), 0))]

\* The loop of parseYearToFraction / parseWeekToFraction over the groups that
\* matched: [panic, cd], before the sign is applied.
RECURSIVE SumParts(_, _, _)
SumParts(parts, i, yearToFraction) ==
    IF i > Len(parts) THEN [panic |-> FALSE, cd |-> ZeroCalendar]
    ELSE CHOOSE sum \in {AddPart(r, GroupOf(parts, i, yearToFraction),
                                 parts[i].n, parts[i].f) :
                            r \in {SumParts(parts, i + 1, yearToFraction)}} : TRUE

\* The value a match m with the sum of its groups gives: [ok, panic, cd].
\* A sum of zero is refused when refuseZero.
Signed(m, sum, refuseZero) ==
    LET sign == IF m.neg THEN -1 ELSE 1 IN
    CASE ~m.ok -> [ok |-> FALSE, panic |-> FALSE, cd |-> ZeroCalendar]
      [] sum.panic -> [ok |-> FALSE, panic |-> TRUE, cd |-> ZeroCalendar]
      [] refuseZero /\ IsZero(sum.cd) -> [ok |-> FALSE, panic |-> FALSE, cd |-> sum.cd]
      [] OTHER ->
            [ok |-> TRUE, panic |-> FALSE,
             cd |-> CalendarDuration(sum.cd.months * sign,
                                     DurTimes(sum.cd.duration, sign))]

SumOf(m, yearToFraction, refuseZero) ==
    CHOOSE out \in {Signed(m, sum, refuseZero) :
                       sum \in {SumParts(m.parts, 1, yearToFraction)}} : TRUE

\* parseYearToFraction: [ok, panic, cd].
parseYearToFraction(s) ==
    CHOOSE out \in {SumOf(m, TRUE, TRUE) : m \in {Match(s, TRUE)}} : TRUE

\* parseWeekToFraction: [ok, panic, d].
parseWeekToFraction(s) ==
    CHOOSE out \in {[ok |-> r.ok, panic |-> r.panic, d |-> r.cd.duration] :
                       r \in {SumOf(m, FALSE, FALSE) : m \in {Match(s, FALSE)}}} : TRUE

\* The result of a parse entry point: [err, panic, cd]; err names the error
\* returned ("" when nil), cd is the value returned or left in the receiver.
Parsed(cd) == [err |-> "", panic |-> FALSE, cd |-> cd]
ParseError(e) == [err |-> e, panic |-> FALSE, cd |-> ZeroCalendar]
ParsePanic == [err |-> "", panic |-> TRUE, cd |-> ZeroCalendar]

\* ParseCalendarDuration
ParseCalendarDuration(s) ==
    LET r == parseYearToFraction(s) IN
    CASE r.panic -> ParsePanic
      [] ~r.ok -> ParseError("ErrBadCalendarDuration")
      [] OTHER -> Parsed(r.cd)

\* ParseFixedDuration; the duration is returned as a CalendarDuration of no
\* months.
ParseFixedDuration(s) ==
    CHOOSE out \in {CASE r.panic -> ParsePanic
                      [] ~r.ok -> ParseError("ErrBadFixedDuration")
                      [] OTHER -> Parsed(CalendarDuration(0, r.d)) :
                       r \in {parseWeekToFraction(s)}} : TRUE

\* (*CalendarDuration).UnmarshalText into a zero receiver.
CalendarUnmarshalText(gen, b) ==
    LET r == parseYearToFraction(b) IN
    CASE r.panic -> ParsePanic
      [] ~r.ok -> ParseError("ErrBadCalendarDuration")
      [] gen = "new" /\ r.cd.duration # DurZero /\ r.cd.months # 0 ->
            ParseError("ErrMixedCalendarDuration")
      [] OTHER -> Parsed(r.cd)

\* (*CalendarDurationNullZero).UnmarshalJSON into a zero receiver; data is a
\* JSON token.
CalendarUnmarshalJSON(data) ==
    CASE data = TokNull -> Parsed(ZeroCalendar)
      [] Len(data) >= 2 /\ data[1] = "\"" ->
            ParseCalendarDuration(SubSeq(data, 2, Len(data) - 1))
      [] OTHER -> ParseError("json")

\* formatFixedDuration; FormatFloat(fraction, 'f', -1, 64) writes the seconds
\* and the digits of the nanoseconds without trailing zeros.
formatFixedDuration(d) ==
    LET a == IF DurIsNeg(d) THEN DurTimes(d, -1) ELSE d
        hour == a.s \div 3600
        min == (a.s % 3600) \div 60
        sec == a.s % 60
    IN  (IF DurIsNeg(d) THEN <<"-", "P", "T">> ELSE <<"P", "T">>)
        \o (IF hour > 0 THEN NatToDec(hour) \o <<"H">> ELSE << >>)
        \o (IF min > 0 THEN NatToDec(min) \o <<"M">> ELSE << >>)
        \o (IF sec > 0 \/ a.ns > 0
            THEN NatToDec(sec)
                 \o (IF a.ns = 0 THEN << >> ELSE <<".">> \o TrimZeros(Pad(a.ns, 9)))
                 \o <<"S">>
            ELSE << >>)

\* formatCalendarDuration: [err, text].
formatCalendarDuration(dd) ==
    CASE dd.months # 0 /\ dd.duration # DurZero -> [err |-> TRUE, text |-> << >>]
      [] dd.months # 0 ->
            LET m == Abs(dd.months)
                y == m \div 12
            IN  [err |-> FALSE,
                 text |-> (IF dd.months < 0 THEN <<"-", "P">> ELSE <<"P">>)
                          \o (IF y > 0 THEN NatToDec(y) \o <<"Y">> ELSE << >>)
                          \o (IF m % 12 > 0 THEN NatToDec(m % 12) \o <<"M">> ELSE << >>)]
      [] dd.duration # DurZero -> [err |-> FALSE, text |-> formatFixedDuration(dd.duration)]
      [] OTHER -> [err |-> FALSE, text |-> <<"P", "T", "0", "S">>]

DurationTypes ==
    {"FixedDuration", "FixedDurationNullZero", "CalendarDuration",
     "CalendarDurationNullZero"}

\* The types a generation declares: the old one has FixedDuration only.
TypesOf(gen) == IF gen = "old" THEN {"FixedDuration"} ELSE DurationTypes

\* json.Marshal of a value of one of the duration types; a fixed duration is
\* handed over as a CalendarDuration of no months.  [err, tok].
MarshalDuration(gen, typ, cd) ==
    CASE typ = "FixedDuration" /\ gen = "old" ->
            \* FixedDuration.MarshalJSON
            [err |-> FALSE,
             tok |-> IF cd.duration = DurZero THEN TokNull
                     ELSE QuoteString(formatFixedDuration(cd.duration))]
      [] typ = "FixedDuration" ->
            \* FixedDuration.MarshalText
            [err |-> FALSE, tok |-> QuoteString(formatFixedDuration(cd.duration))]
      [] typ = "FixedDurationNullZero" ->
            [err |-> FALSE,
             tok |-> IF cd.duration = DurZero THEN TokNull
                     ELSE QuoteString(formatFixedDuration(cd.duration))]
      [] typ = "CalendarDuration" ->
            \* CalendarDuration.MarshalText
            [err |-> formatCalendarDuration(cd).err,
             tok |-> IF formatCalendarDuration(cd).err THEN << >>
                     ELSE QuoteString(formatCalendarDuration(cd).text)]
      [] OTHER ->
            \* CalendarDurationNullZero.MarshalJSON
            IF IsZero(cd) THEN [err |-> FALSE, tok |-> TokNull]
            ELSE [err |-> formatCalendarDuration(cd).err,
                  tok |-> IF formatCalendarDuration(cd).err THEN << >>
                          ELSE QuoteString(formatCalendarDuration(cd).text)]

-----------------------------------------------------------------------------
(* The duration types as a state machine: a behaviour is one call.          *)

Str_Y == <<"1", "Y">>
Str_M == <<"2", "M">>
Str_W == <<"1", "W">>
Str_0D == <<"0", "D">>
Str_D == <<"3", "D">>
TimeParts ==
    {<< >>, <<"T">>, <<"T", "1", "H">>, <<"T", "5", "M">>, <<"T", "0", "S">>,
     <<"T", "1", ".", "5", "S">>, <<"T", "1", "H", "5", "M", "1", ".", "5", "S">>}

\* The texts parsed: every text of the year-to-fraction grammar over the parts
\* above, of either sign, and texts outside the grammar.
GrammarTexts ==
    {sign \o <<"P">> \o y \o m \o w \o d \o t :
        sign \in {<< >>, <<"-">>}, y \in {<< >>, Str_Y}, m \in {<< >>, Str_M},
        w \in {<< >>, Str_W}, d \in {<< >>, Str_0D, Str_D}, t \in TimeParts}

OtherTexts ==
    {<< >>, <<"1", "0", "s">>, <<"P", "-", "3", "H">>, <<"P", "3", "D", "1", "W">>,
     <<"p", "1", "m", "1", "d">>, <<"P", "1", ".", "5", "D">>,
     <<"P">> \o [i \in 1..20 |-> "9"] \o <<"Y">>}

DurationTexts == GrammarTexts \cup OtherTexts

\* The values marshalled: months and a fixed duration, each zero or not.
MonthValues == {-14, -1, 0, 1, 12, 25}
FixedValues ==
    {DurZero, Dur(0, 1), Dur(1, 500000000), Dur(3600, 0), Dur(-90, 0),
     Dur(8 * 86400 + 61, 0), Dur(8, 199999999)}

DurCall(op, gen, typ, text, cd, res, out) ==
    [op |-> op, gen |-> gen, typ |-> typ, text |-> text, cd |-> cd,
     err |-> res.err, panic |-> res.panic, res |-> res.cd, out |-> out]

NoToken == [err |-> FALSE, tok |-> << >>]

DurInit ==
    /\ pkg \in Packages
    /\ fop = FilterIdle
    /\ cop = CmpIdle
    /\ mem = MemIdle
    /\ frame = FrameIdle
    /\ tsop = TsIdle
    /\ dop = DurIdle
    /\ lab = LabIdle
    /\ aut = AutIdle
    /\ pub = PubIdle

\* cd, err := ParseCalendarDuration(s)
DoParseCalendarDuration ==
    /\ dop.op = "init"
    /\ \E gen \in {"mid", "new"}, s \in DurationTexts :
          \E res \in {ParseCalendarDuration(s)} :
             dop' = DurCall("ParseCalendarDuration", gen, "CalendarDuration", s, ZeroCalendar, res, NoToken)
    /\ UNCHANGED <<pkg, cop, fop, mem, frame, tsop, lab, aut, pub>>

\* err := cd.UnmarshalText(b)
DoCalendarUnmarshalText ==
    /\ dop.op = "init"
    /\ \E gen \in {"mid", "new"}, s \in DurationTexts :
          \E res \in {CalendarUnmarshalText(gen, s)} :
             dop' = DurCall("UnmarshalText", gen, "CalendarDuration", s, ZeroCalendar, res, NoToken)
    /\ UNCHANGED <<pkg, cop, fop, mem, frame, tsop, lab, aut, pub>>

\* err := cd.UnmarshalJSON(data), data the JSON string of a text
DoCalendarUnmarshalJSON ==
    /\ dop.op = "init"
    /\ \E gen \in {"mid", "new"}, s \in DurationTexts :
          \E res \in {CalendarUnmarshalJSON(QuoteString(s))} :
             dop' = DurCall("UnmarshalJSON", gen, "CalendarDurationNullZero", s, ZeroCalendar, res, NoToken)
    /\ UNCHANGED <<pkg, cop, fop, mem, frame, tsop, lab, aut, pub>>

\* b, err := json.Marshal(d)
DoMarshalDuration ==
    /\ dop.op = "init"
    /\ \E gen \in DurGens, months \in MonthValues, d \in FixedValues :
          \E typ \in TypesOf(gen) :
             /\ typ \in {"FixedDuration", "FixedDurationNullZero"} => months = 0
             /\ dop' = DurCall("MarshalJSON", gen, typ, << >>,
                               CalendarDuration(months, d), Parsed(ZeroCalendar),
                               MarshalDuration(gen, typ, CalendarDuration(months, d)))
    /\ UNCHANGED <<pkg, cop, fop, mem, frame, tsop, lab, aut, pub>>

Str_82 == <<"8", ".", "2">>
FixedTimeParts ==
    {<< >>, <<"T">>, <<"T", "3", "H">>, <<"T", "2", "M">>, <<"T", "1", "M">>,
     <<"T", "6", "0", "S">>, <<"T", "0", "S">>, <<"T", "0", ".", "0", "0", "1", "S">>,
     <<"T", "3", "H", "2", "M", "0", ".", "0", "0", "1", "S">>,
     <<"T", "1", ".", "5", "S">>, <<"T">> \o Str_82 \o <<"S">>,
     <<"T">> \o Str_82 \o <<"0", "S">>, <<"T", "1", "M">> \o Str_82 \o <<"S">>,
     <<"T", "6">> \o Str_82 \o <<"S">>}

\* The texts handed to ParseFixedDuration: texts of the week-to-fraction
\* grammar of either sign, in either case, and texts outside the grammar.
FixedTexts ==
    {sign \o <<"P">> \o w \o d \o t :
        sign \in {<< >>, <<"-">>}, w \in {<< >>, Str_W}, d \in {<< >>, Str_D, <<"4", "D">>},
        t \in FixedTimeParts}
    \cup OtherTexts
    \cup {<<"P">> \o Str_Y, <<"P", "1", "M">>, <<"P", "1", "M", "1", "D">>,
          <<"p", "t", "2", "m">>, <<"P", "T", "-", "3", "H">>, <<"T", "3", "H">>,
          <<"P">> \o [i \in 1..20 |-> "9"] \o <<"W">>}

\* d, err := ParseFixedDuration(s)
DoParseFixedDuration ==
    /\ dop.op = "init"
    /\ \E gen \in DurGens, s \in FixedTexts :
          \E res \in {ParseFixedDuration(s)} :
             dop' = DurCall("ParseFixedDuration", gen, "FixedDuration", s,
                            ZeroCalendar, res, NoToken)
    /\ UNCHANGED <<pkg, cop, fop, mem, frame, tsop, lab, aut, pub>>

\* s2 := d.String(); d2, err := ParseFixedDuration(s2) of the duration just
\* parsed; again holds the second result.
DoFormatParsed ==
    /\ dop.op = "ParseFixedDuration"
    /\ dop.err = ""
    /\ ~dop.panic
    /\ \E s2 \in {formatFixedDuration(dop.res.duration)} :
          dop' = [again |-> ParseFixedDuration(s2)]
                 @@ [dop EXCEPT !.op = "FormatParsed",
                                !.out = [err |-> FALSE, tok |-> s2]]
    /\ UNCHANGED <<pkg, cop, fop, mem, frame, tsop, lab, aut, pub>>

\* b, err := cd.MarshalText() of a CalendarDuration
DoCalendarMarshalText ==
    /\ dop.op = "init"
    /\ \E gen \in {"mid", "new"}, months \in MonthValues, d \in FixedValues :
          \E out \in {formatCalendarDuration(CalendarDuration(months, d))} :
             dop' = DurCall("MarshalText", gen, "CalendarDuration", << >>,
                            CalendarDuration(months, d), Parsed(ZeroCalendar),
                            [err |-> out.err, tok |-> out.text])
    /\ UNCHANGED <<pkg, cop, fop, mem, frame, tsop, lab, aut, pub>>

\* cd2, err := ParseCalendarDuration(string(b)) of the text just written;
\* again holds the result.
DoParseMarshalled ==
    /\ dop.op = "MarshalText"
    /\ ~dop.out.err
    /\ dop' = [again |-> ParseCalendarDuration(dop.out.tok)]
              @@ [dop EXCEPT !.op = "ParseMarshalled"]
    /\ UNCHANGED <<pkg, cop, fop, mem, frame, tsop, lab, aut, pub>>

DurNext ==
    \/ DoParseCalendarDuration
    \/ DoCalendarUnmarshalText
    \/ DoCalendarUnmarshalJSON
    \/ DoMarshalDuration
    \/ DoParseFixedDuration
    \/ DoFormatParsed
    \/ DoCalendarMarshalText
    \/ DoParseMarshalled

SpecDur == DurInit /\ [][DurNext]_vars

ParseOps == {"ParseCalendarDuration", "UnmarshalText", "UnmarshalJSON"}

\* Some digit of ds is not zero.
NonZeroDigits(ds) == \E i \in 1..Len(ds) : ds[i] # "0"

\* The text has a year or month component that is not zero and a week, day or
\* time component that is not zero.
MixedText(text) ==
    \E m \in {Match(text, TRUE)} :
    /\ m.ok
    /\ \E i \in 1..Len(m.parts) :
          GroupOf(m.parts, i, TRUE) \in {1, 2} /\ NonZeroDigits(m.parts[i].n)
    /\ \E i \in 1..Len(m.parts) :
          /\ GroupOf(m.parts, i, TRUE) \in {3, 4, 6, 7, 8}
          /\ NonZeroDigits(m.parts[i].n \o m.parts[i].f)

\* C19: parsing a calendar-duration text that has year or month components
\* together with week, day or time components fails with an error, through
\* ParseCalendarDuration, UnmarshalText and UnmarshalJSON; no parse gives a
\* CalendarDuration of months and of a fixed duration that are both not zero.
CX_C19 ==
    dop.op \in ParseOps =>
        /\ MixedText(dop.text) => (dop.err # "" /\ ~dop.panic)
        /\ ~(dop.res.months # 0 /\ dop.res.duration # DurZero)

\* C20: a zero duration marshals to null for FixedDurationNullZero and
\* CalendarDurationNullZero and to the string "PT0S" for FixedDuration and
\* CalendarDuration, which never marshal to null.
CX_C20 ==
    dop.op = "MarshalJSON" =>
        /\ (IsZero(dop.cd) /\ dop.typ \in {"FixedDurationNullZero", "CalendarDurationNullZero"})
              => dop.out = [err |-> FALSE, tok |-> TokNull]
        /\ (IsZero(dop.cd) /\ dop.typ \in {"FixedDuration", "CalendarDuration"})
              => dop.out = [err |-> FALSE, tok |-> QuoteString(<<"P", "T", "0", "S">>)]
        /\ dop.typ \in {"FixedDuration", "CalendarDuration"} => dop.out.tok # TokNull

\* The duration of one part as the number written: whole units of its group,
\* or the seconds of a fraction.
PartDuration(part, g) ==
    CASE g = 8 -> DecimalSeconds(part.n, part.f)
      [] g \in {3, 4, 6, 7} -> Dur(DecToNat(part.n) * UnitSeconds(g), 0)
      [] OTHER -> DurZero

RECURSIVE PartsSum(_, _)
PartsSum(parts, i) ==
    IF i > Len(parts) THEN DurZero
    ELSE CHOOSE sum \in {DurAdd(PartDuration(parts[i], GroupOf(parts, i, FALSE)), r) :
                            r \in {PartsSum(parts, i + 1)}} : TRUE

\* The text is of the week-to-fraction grammar.
ValidFixed(text) == Match(text, FALSE).ok

\* The duration a text of the week-to-fraction grammar denotes: the signed
\* sum of its components.
Denoted(text) ==
    CHOOSE d \in {DurTimes(PartsSum(m.parts, 1), IF m.neg THEN -1 ELSE 1) :
                     m \in {Match(text, FALSE)}} : TRUE

\* C21: formatting the duration parsed from a valid fixed-duration text gives
\* a text that parses without error to the same duration, and every valid
\* text whose numbers fit an int64 and that denotes the same duration as the
\* text parsed formats, once parsed, to the same canonical text.
CX_C21 ==
    dop.op = "FormatParsed" =>
        /\ dop.again = Parsed(dop.res)
        /\ \A t \in FixedTexts : \E r \in {ParseFixedDuration(t)} :
              (ValidFixed(t) /\ ~r.panic /\ Denoted(t) = Denoted(dop.text)) =>
                  /\ r.err = ""
                  /\ formatFixedDuration(r.cd.duration) = dop.out.tok

\* C22: ParseFixedDuration returns ErrBadFixedDuration and a zero duration for
\* every text outside the week-to-fraction grammar, and for a text of the
\* grammar no error and the signed sum of its week, day, hour, minute and
\* second components.
CX_C22 ==
    dop.op = "ParseFixedDuration" =>
        IF ValidFixed(dop.text)
        THEN /\ dop.err = ""
             /\ ~dop.panic
             /\ dop.res = CalendarDuration(0, Denoted(dop.text))
        ELSE /\ dop.err = "ErrBadFixedDuration"
             /\ ~dop.panic
             /\ dop.res = ZeroCalendar

\* Months and a fixed duration are both set.
Mixed(cd) == cd.months # 0 /\ cd.duration # DurZero

\* C29: formatting a CalendarDuration that is not mixed (months only, a fixed
\* duration only, or zero) succeeds, and ParseCalendarDuration of the text
\* returns the same value without error.
CX_C29 ==
    /\ (dop.op \in {"MarshalText", "ParseMarshalled"} /\ ~Mixed(dop.cd)) => ~dop.out.err
    /\ (dop.op = "ParseMarshalled" /\ ~Mixed(dop.cd)) => dop.again = Parsed(dop.cd)

-----------------------------------------------------------------------------
(* Serialization of the comparisons built                                   *)

\* C30: no comparison returned by a builder serializes to the empty object:
\* its serialization is the token null or an object of at least one operator
\* key, also for In and NotIn without values and for Regex of the empty
\* pattern.
CX_C30 ==
    (cop.op \in BuilderOps \cup {"MergeOperators"} /\ ~cop.panic) =>
        \E out \in {MarshalComparison(cop.res)} :
            /\ out.sts = {"ok"}
            /\ \/ out.json = JNull
               \/ out.json.k = "obj" /\ Len(out.json.v) >= 1

-----------------------------------------------------------------------------
(* Round trip of a filter through its wire form                             *)

\* C27: when MarshalJSON succeeds on a filter that Field, And or Or has just
\* built, UnmarshalJSON of the bytes written succeeds and yields a filter
\* whose MarshalJSON writes the same bytes again.
CX_C27 ==
    [][(/\ fop.op \in {"Field", "And", "Or"}
        /\ fop'.op = "MarshalJSON"
        /\ fop'.out.sts = {"ok"}) =>
           \E u \in {UnmarshalFilter(fop'.out.json)} :
               /\ ~u.err
               /\ MarshalFilter(u.f) = fop'.out]_vars
-----------------------------------------------------------------------------
(* Labels: map[string][]string                                              *)

\* Largest number of values handed to Labels.Set.
MaxValues == 2

\* The strings used as label values, in ascending order; "" is the zero
\* value of string.
Alphabet == <<"", "a", "b", "c", "d">>

Rank(v) == CHOOSE i \in 1..Len(Alphabet) : Alphabet[i] = v

NilLabels == [isnil |-> TRUE, m |-> << >>]

MakeLabels(m) == [isnil |-> FALSE, m |-> m]

\* l[key] of a map that may be nil: the zero value (a nil slice) when absent.
LabelsGet(l, key) == IF key \in DOMAIN l.m THEN l.m[key] ELSE << >>

\* delete(*l, key)
LabelsDeleteKey(l, key) == MakeLabels([k \in DOMAIN l.m \ {key} |-> l.m[k]])

\* (*l)[key] = ll
LabelsPut(l, key, ll) ==
    MakeLabels([k \in DOMAIN l.m \cup {key} |-> IF k = key THEN ll ELSE l.m[k]])

\* slices.Sort
RECURSIVE SortStrings(_)
SortStrings(ll) ==
    IF Len(ll) = 0 THEN << >>
    ELSE \* the first smallest element, then the rest sorted
         LET least == CHOOSE i \in 1..Len(ll) :
                          /\ \A j \in 1..Len(ll) : Rank(ll[i]) <= Rank(ll[j])
                          /\ \A j \in 1..(i - 1) : Rank(ll[j]) > Rank(ll[i])
         IN  <<ll[least]>> \o SortStrings(SubSeq(ll, 1, least - 1)
                                           \o SubSeq(ll, least + 1, Len(ll)))

\* slices.Compact: of each run of equal elements the first is kept.
CompactStrings(ll) ==
    LET keep == {i \in 1..Len(ll) : i = 1 \/ ll[i] # ll[i - 1]}
        nth(n) == CHOOSE i \in keep : Cardinality({j \in keep : j < i}) = n - 1
    IN  [n \in 1..Cardinality(keep) |-> ll[nth(n)]]

\* slices.BinarySearch on a sorted slice: the position (from 0) of the first
\* element not below the target, and whether that element is the target.
BinarySearch(ll, target) ==
    LET i == Cardinality({j \in 1..Len(ll) : Rank(ll[j]) < Rank(target)}) IN
    [i |-> i, found |-> i < Len(ll) /\ ll[i + 1] = target]

\* slices.Delete(ll, i, i+1) for i < len(ll): the slice returned.
SliceDelete(ll, i) == SubSeq(ll, 1, i) \o SubSeq(ll, i + 2, Len(ll))

\* What ll itself holds after slices.Delete(ll, i, i+1) when the slice
\* returned is dropped: the elements shifted down within the same array and
\* the length as before; the last place keeps its old element or is zeroed,
\* as the version of the slices package has it.
SliceDeleteInPlace(ll, i) ==
    {SliceDelete(ll, i) \o <<ll[Len(ll)]>>, SliceDelete(ll, i) \o <<"">>}

\* The versions of Labels: fields.Labels and resource.Labels.
LabelVersions == {"fields", "resource"}

\* Labels.Set
LabelsSet(l, key, values) ==
    CASE Len(values) = 0 /\ l.isnil -> l
      [] Len(values) = 0 -> LabelsDeleteKey(l, key)
      [] OTHER -> LabelsPut(l, key, CompactStrings(SortStrings(values)))

\* Labels.Remove: the outcomes [panic, l].  slices.Delete(ll, i, i+1) with
\* i = len(ll) panics on its bounds.
LabelsRemove(ver, l, key, value) ==
    IF l.isnil THEN {[panic |-> FALSE, l |-> l]}
    ELSE IF Len(LabelsGet(l, key)) = 0
    THEN {[panic |-> FALSE, l |-> LabelsDeleteKey(l, key)]}
    ELSE LET ll == SortStrings(LabelsGet(l, key))
             bs == BinarySearch(ll, value)
         IN  CASE bs.found -> {[panic |-> FALSE, l |-> LabelsPut(l, key, ll)]}
               [] bs.i = Len(ll) -> {[panic |-> TRUE, l |-> LabelsPut(l, key, ll)]}
               [] ver = "fields" ->
                    {[panic |-> FALSE,
                      l |-> IF Len(SliceDelete(ll, bs.i)) = 0
                            THEN LabelsDeleteKey(l, key)
                            ELSE LabelsPut(l, key, SliceDelete(ll, bs.i))]}
               [] OTHER ->
                    {[panic |-> FALSE, l |-> LabelsPut(l, key, x)] :
                        x \in SliceDeleteInPlace(ll, bs.i)}

LabelKeys == {"k1", "k2"}

\* The values handed to Set and Remove.
LabelValues == {"a", "b", "c"}

LabelCall(op, ver, l, key, value, panic) ==
    [op |-> op, ver |-> ver, l |-> l, key |-> key, value |-> value,
     panic |-> panic]

LabelsInit ==
    /\ pkg = "fields"
    /\ cop = CmpIdle
    /\ fop = FilterIdle
    /\ mem = MemIdle
    /\ frame = FrameIdle
    /\ tsop = TsIdle
    /\ dop = DurIdle
    /\ lab \in {LabelCall("init", ver, l, "", "", FALSE) :
                   ver \in LabelVersions, l \in {NilLabels, MakeLabels(<< >>)}}
    /\ aut = AutIdle
    /\ pub = PubIdle

DoLabelsSet ==
    \E key \in LabelKeys, values \in SeqsUpTo(LabelValues, MaxValues) :
        /\ ~lab.panic
        /\ lab' = LabelCall("Set", lab.ver, LabelsSet(lab.l, key, values), key, "", FALSE)
        /\ UNCHANGED <<pkg, cop, fop, mem, frame, tsop, dop, aut, pub>>

DoLabelsRemove ==
    \E key \in LabelKeys, value \in LabelValues :
        /\ ~lab.panic
        /\ \E out \in LabelsRemove(lab.ver, lab.l, key, value) :
              lab' = LabelCall("Remove", lab.ver, out.l, key, value, out.panic)
        /\ UNCHANGED <<pkg, cop, fop, mem, frame, tsop, dop, aut, pub>>

LabelsNext ==
    \/ DoLabelsSet
    \/ DoLabelsRemove

SpecLabels == LabelsInit /\ [][LabelsNext]_vars

\* The labels as Set and Add leave them: every list ascending, without
\* repetitions and without the empty string.
WellFormedLabels(l) ==
    \A k \in DOMAIN l.m :
        /\ Len(l.m[k]) >= 1
        /\ \A i \in 1..Len(l.m[k]) : l.m[k][i] # ""
        /\ \A i \in 1..(Len(l.m[k]) - 1) : Rank(l.m[k][i]) < Rank(l.m[k][i + 1])

ValuesOf(l, key) == {LabelsGet(l, key)[i] : i \in 1..Len(LabelsGet(l, key))}

\* C23: a Remove(key, value) on well-formed labels does not panic; afterwards
\* value is not among the key's values, every other value of the key and
\* every other key is as before, the key is gone when no value is left, and
\* when value was not present the labels are unchanged.
CX_C23 ==
    [][(lab'.op = "Remove" /\ WellFormedLabels(lab.l)) =>
          /\ ~lab'.panic
          /\ lab'.value \notin ValuesOf(lab'.l, lab'.key)
          /\ ValuesOf(lab.l, lab'.key) \ {lab'.value} \subseteq ValuesOf(lab'.l, lab'.key)
          /\ \A k \in LabelKeys \ {lab'.key} : LabelsGet(lab'.l, k) = LabelsGet(lab.l, k)
          /\ (ValuesOf(lab.l, lab'.key) \subseteq {lab'.value}) =>
                 lab'.key \notin DOMAIN lab'.l.m
          /\ (lab'.value \notin ValuesOf(lab.l, lab'.key)) => lab'.l = lab.l]_vars
-----------------------------------------------------------------------------
(* Automation: Config and Routines                                          *)

\* Config, without the application name, the logger and the client.
NewConfig == [routinePath |-> << >>, dryRun |-> FALSE, earlyOut |-> FALSE]

\* The With methods have a value receiver: they change a copy and return it.
WithSubRoutineName(cfg, name) ==
    CASE name = << >> -> cfg
      [] cfg.routinePath = << >> -> [cfg EXCEPT !.routinePath = name]
      [] OTHER -> [cfg EXCEPT !.routinePath = @ \o <<"/">> \o name]

WithDryRun(cfg, dryRun) == [cfg EXCEPT !.dryRun = dryRun]

\* The value handed in is not used.
WithEarlyOut(cfg, value) == [cfg EXCEPT !.earlyOut = TRUE]

\* EarlyOut returns the dry-run field.
EarlyOut(cfg) == cfg.dryRun

DryRun(cfg) == cfg.dryRun

\* A Routine: nil, a function that fails or not, or a Routines map.
NilRoutine == [kind |-> "nil"]

RoutineFunc(fails) == [kind |-> "func", fails |-> fails]

Routines(m) == [kind |-> "routines", m |-> m]

\* The errors: nil, the error of a function, fmt.Errorf("%s: %w", k, err)
\* and fmt.Errorf("%d/%d routines failed", errCnt, len(routines)).
NoError == [e |-> "nil"]

FuncError == [e |-> "func"]

WrapError(k, err) == [e |-> "wrap", k |-> k, err |-> err]

CountError(errCnt, n) == [e |-> "count", errCnt |-> errCnt, n |-> n]

\* The keys in use, in ascending order (slices.Sort).
KeyOrder == <<<<"a">>, <<"b">>, <<"r">>, <<"s">>>>

KeyRank(k) == CHOOSE i \in 1..Len(KeyOrder) : KeyOrder[i] = k

SortedKeys(m) ==
    LET nth(n) == CHOOSE k \in DOMAIN m :
                      Cardinality({j \in DOMAIN m : KeyRank(j) < KeyRank(k)}) = n - 1
    IN  [n \in 1..Cardinality(DOMAIN m) |-> nth(n)]

\* Routine.Do and the loop of Routines.Do from keys[i] on: [ran, err, errCnt],
\* ran being the routine paths logged as started, in the order of the calls.
RECURSIVE RoutineDo(_, _)
RECURSIVE RoutinesDoLoop(_, _, _, _, _)
RoutineDo(r, cfg) ==
    IF r.kind = "func"
    THEN [ran |-> << >>, err |-> IF r.fails THEN FuncError ELSE NoError]
    ELSE CHOOSE out \in {[ran |-> l.ran,
                          err |-> CASE l.err # NoError -> l.err
                                    [] l.errCnt > 0 ->
                                          CountError(l.errCnt, Cardinality(DOMAIN r.m))
                                    [] OTHER -> NoError] :
                            l \in {RoutinesDoLoop(r, cfg, EarlyOut(cfg), SortedKeys(r.m), 1)}} : TRUE

RoutinesDoLoop(routines, cfg, earlyOut, keys, i) ==
    IF i > Len(keys) THEN [ran |-> << >>, err |-> NoError, errCnt |-> 0]
    ELSE IF routines.m[keys[i]].kind = "nil"
    THEN RoutinesDoLoop(routines, cfg, earlyOut, keys, i + 1)
    ELSE CHOOSE out \in
            {IF d.err # NoError /\ earlyOut
             THEN [ran |-> <<WithSubRoutineName(cfg, keys[i]).routinePath>> \o d.ran,
                   err |-> WrapError(keys[i], d.err), errCnt |-> 0]
             ELSE CHOOSE o \in {[ran |-> <<WithSubRoutineName(cfg, keys[i]).routinePath>>
                                          \o d.ran \o rest.ran,
                                 err |-> rest.err,
                                 errCnt |-> rest.errCnt + (IF d.err # NoError THEN 1 ELSE 0)] :
                                  rest \in {RoutinesDoLoop(routines, cfg, earlyOut, keys, i + 1)}} : TRUE :
               d \in {RoutineDo(routines.m[keys[i]], WithSubRoutineName(cfg, keys[i]))}} : TRUE

\* Routines.Do
RoutinesDo(routines, cfg) == RoutineDo(routines, cfg)

\* strings.Cut(path, "/"): the text before the first slash and the text
\* after it; the whole text and "" when there is no slash.
Cut(path) ==
    LET slashes == {i \in 1..Len(path) : path[i] = "/"} IN
    IF slashes = {} THEN [name |-> path, nestedPath |-> << >>]
    ELSE LET i == CHOOSE x \in slashes : \A y \in slashes : x <= y IN
         [name |-> SubSeq(path, 1, i - 1), nestedPath |-> SubSeq(path, i + 1, Len(path))]

Star == <<"*">>

\* lookup[name] of a map[string][]string: nil when absent.
LookupGet(lookup, name) == IF name \in DOMAIN lookup THEN lookup[name] ELSE << >>

LookupPut(lookup, name, paths) ==
    [k \in DOMAIN lookup \cup {name} |-> IF k = name THEN paths ELSE lookup[k]]

\* The LOOKUP loop of SubRoutines from patterns[i] on: [matchAll, lookup].
RECURSIVE BuildLookup(_, _, _, _)
BuildLookup(routines, patterns, i, lookup) ==
    IF i > Len(patterns) THEN [matchAll |-> FALSE, lookup |-> lookup]
    ELSE LET name == Cut(patterns[i]).name
             nestedPath == Cut(patterns[i]).nestedPath
             found == name = Star \/ name \in DOMAIN routines.m
             cur == LookupGet(lookup, name)
         IN  CASE ~found -> BuildLookup(routines, patterns, i + 1, lookup)
               [] name = Star /\ nestedPath = << >> ->
                    [matchAll |-> TRUE, lookup |-> lookup]
               [] Len(cur) = 1 /\ cur[1] = << >> ->
                    BuildLookup(routines, patterns, i + 1, lookup)
               [] nestedPath = << >> ->
                    BuildLookup(routines, patterns, i + 1, LookupPut(lookup, name, <<<< >>>>))
               [] Len(cur) = 1 /\ cur[1] = Star ->
                    BuildLookup(routines, patterns, i + 1, lookup)
               [] nestedPath = Star ->
                    BuildLookup(routines, patterns, i + 1, LookupPut(lookup, name, <<Star>>))
               [] OTHER ->
                    BuildLookup(routines, patterns, i + 1,
                                LookupPut(lookup, name, Append(cur, nestedPath)))

\* The characters of the patterns in ascending order, and the order of
\* strings that slices.Sort uses.
CharOrder == <<"*", "/", "a", "b", "r", "s", "z">>

CharRank(c) == CHOOSE i \in 1..Len(CharOrder) : CharOrder[i] = c

RECURSIVE PathLeq(_, _)
PathLeq(x, y) ==
    CASE Len(x) = 0 -> TRUE
      [] Len(y) = 0 -> FALSE
      [] x[1] = y[1] -> PathLeq(Tail(x), Tail(y))
      [] OTHER -> CharRank(x[1]) < CharRank(y[1])

RECURSIVE SortPaths(_)
SortPaths(ps) ==
    IF Len(ps) = 0 THEN << >>
    ELSE LET least == CHOOSE i \in 1..Len(ps) :
                          /\ \A j \in 1..Len(ps) : PathLeq(ps[i], ps[j])
                          /\ \A j \in 1..(i - 1) : ps[j] # ps[i]
         IN  <<ps[least]>> \o SortPaths(SubSeq(ps, 1, least - 1)
                                         \o SubSeq(ps, least + 1, Len(ps)))

\* slices.Contains
Contains(ps, x) == \E i \in 1..Len(ps) : ps[i] = x

\* Routines.SubRoutines; FilterEntry is one round of the filter loop:
\* whether the routine is put into filtered, and as what.
RECURSIVE SubRoutines(_, _)
RECURSIVE FilterEntry(_, _)
FilterEntryStarFirst(r, nestedPath) ==
    CASE Len(nestedPath) = 0 -> [keep |-> FALSE, r |-> r]
      [] Contains(nestedPath, << >>) -> [keep |-> TRUE, r |-> r]
      [] Contains(nestedPath, Star) -> [keep |-> TRUE, r |-> r]
      [] r.kind # "routines" -> [keep |-> FALSE, r |-> r]
      [] OTHER -> [keep |-> TRUE, r |-> SubRoutines(r, nestedPath)]

FilterEntry(r, nestedPath) ==
    CASE Len(nestedPath) = 0 -> [keep |-> FALSE, r |-> r]
      [] Contains(nestedPath, << >>) -> [keep |-> TRUE, r |-> r]
      [] r.kind # "routines" -> [keep |-> FALSE, r |-> r]
      [] Contains(nestedPath, Star) -> [keep |-> TRUE, r |-> r]
      [] OTHER -> [keep |-> TRUE, r |-> SubRoutines(r, nestedPath)]

SubRoutines(routines, patterns) ==
    IF DOMAIN routines.m = {} THEN routines
    ELSE CHOOSE out \in
            {IF built.matchAll THEN routines
             ELSE CHOOSE o \in
                     {Routines([name \in {k \in DOMAIN routines.m : entry[k].keep} |->
                                   entry[name].r]) :
                         entry \in {[name \in DOMAIN routines.m |->
                                        FilterEntry(routines.m[name],
                                            SortPaths(LookupGet(built.lookup, Star)
                                                      \o LookupGet(built.lookup, name)))]}} : TRUE :
               built \in {BuildLookup(routines, patterns, 1, << >>)}} : TRUE

\* The keys: a and b name nested routines, r and s functions.
Ka == <<"a">>
Kb == <<"b">>
Kr == <<"r">>
Ks == <<"s">>

\* Largest number of components of a pattern.
MaxDepth == 3

\* Largest number of patterns handed to SubRoutines.
MaxPatterns == 2

Leaf == RoutineFunc(FALSE)

Pair == Routines(Kr :> Leaf @@ Ks :> Leaf)

\* The tree of TestRoutinesSubRoutines, and a tree with an empty Routines.
TestTree ==
    Routines(Ka :> Routines(Ka :> Pair @@ Kb :> Pair)
             @@ Kb :> Routines(Ka :> Pair)
             @@ Kr :> Leaf
             @@ Ks :> Leaf)

SmallTree == Routines(Ka :> Routines(Kr :> Leaf) @@ Kb :> Routines(<< >>) @@ Kr :> Leaf)

SubTrees == {TestTree, SmallTree, Routines(<< >>)}

\* The patterns: up to MaxDepth components joined by slashes, those of one
\* and two components also with a slash at the end, and the empty pattern.
PatternComponents == {Ka, Kr, Star, <<"z">>}

RECURSIVE PatternsOfDepth(_)
PatternsOfDepth(n) ==
    IF n = 1 THEN PatternComponents
    ELSE {c \o <<"/">> \o rest : c \in PatternComponents, rest \in PatternsOfDepth(n - 1)}

RoutinePatterns ==
    UNION {PatternsOfDepth(n) : n \in 1..MaxDepth}
    \cup {pat \o <<"/">> : pat \in PatternsOfDepth(1) \cup PatternsOfDepth(2)}
    \cup {<< >>, <<"/">>, <<"/", "a">>, <<"a", "/", "/">>, <<"a", "/", "/", "r">>,
          <<"*", "/", "/">>, <<"b", "/", "a", "/", "r">>, <<"b", "/", "z">>}

\* The patterns that go with another one in a call.
MorePatterns ==
    {Ka, <<"a", "/", "*">>, <<"*", "/", "r">>, <<"a", "/", "a">>, <<"*", "/", "*">>}

PatternLists ==
    {<<pat>> : pat \in RoutinePatterns}
    \cup {Append(more, pat) : pat \in RoutinePatterns,
                              more \in SeqsUpTo(MorePatterns, MaxPatterns - 1)}
    \cup {<<pat>> \o more : pat \in RoutinePatterns,
                            more \in SeqsUpTo(MorePatterns, MaxPatterns - 1)}

\* The routines handed to Do: functions that fail or not and nil routines
\* under the keys a, b and r, and the same nested under a.
Members == {NilRoutine, RoutineFunc(FALSE), RoutineFunc(TRUE)}

FlatRoutines(keys) == {Routines(m) : m \in UNION {[ks -> Members] : ks \in SUBSET keys}}

DoTrees ==
    FlatRoutines({Ka, Kb, Kr})
    \cup {Routines(Ka :> sub @@ Kb :> x) :
             sub \in FlatRoutines({Kr, Ks}), x \in Members \ {NilRoutine}}

AutCall(op, cfg, want, recv, arg) ==
    [op |-> op, cfg |-> cfg, want |-> want, recv |-> recv, kept |-> recv,
     arg |-> arg]

\* cfg is the configuration the caller holds, want the settings asked for
\* so far; a With call replaces cfg by the configuration returned.
AutInit ==
    /\ pkg = "fields"
    /\ cop = CmpIdle
    /\ fop = FilterIdle
    /\ mem = MemIdle
    /\ frame = FrameIdle
    /\ tsop = TsIdle
    /\ dop = DurIdle
    /\ lab = LabIdle
    /\ aut = AutCall("NewConfig", NewConfig, [dryRun |-> FALSE, earlyOut |-> FALSE],
                     NewConfig, FALSE)
    /\ pub = PubIdle

ConfigOps == {"NewConfig", "WithDryRun", "WithEarlyOut"}

DoWithDryRun ==
    /\ aut.op \in ConfigOps
    /\ \E dryRun \in BOOLEAN :
        /\ aut' = AutCall("WithDryRun", WithDryRun(aut.cfg, dryRun),
                          [aut.want EXCEPT !.dryRun = dryRun], aut.cfg, dryRun)
        /\ UNCHANGED <<pkg, cop, fop, mem, frame, tsop, dop, lab, pub>>

DoWithEarlyOut ==
    /\ aut.op \in ConfigOps
    /\ \E value \in BOOLEAN :
        /\ aut' = AutCall("WithEarlyOut", WithEarlyOut(aut.cfg, value),
                          [aut.want EXCEPT !.earlyOut = value], aut.cfg, value)
        /\ UNCHANGED <<pkg, cop, fop, mem, frame, tsop, dop, lab, pub>>

DoRoutinesDo ==
    /\ aut.op \in ConfigOps
    /\ \E routines \in DoTrees :
        /\ aut' = [op |-> "Do", cfg |-> aut.cfg, want |-> aut.want,
                   routines |-> routines, out |-> RoutinesDo(routines, aut.cfg)]
        /\ UNCHANGED <<pkg, cop, fop, mem, frame, tsop, dop, lab, pub>>

DoSubRoutines ==
    /\ aut.op = "NewConfig"
    /\ \E routines \in SubTrees, patterns \in PatternLists :
        /\ aut' = [op |-> "SubRoutines", routines |-> routines, patterns |-> patterns,
                   res |-> SubRoutines(routines, patterns)]
        /\ UNCHANGED <<pkg, cop, fop, mem, frame, tsop, dop, lab, pub>>

AutNext ==
    \/ DoWithDryRun
    \/ DoWithEarlyOut
    \/ DoRoutinesDo
    \/ DoSubRoutines

SpecAut == AutInit /\ [][AutNext]_vars

\* C24: the configuration that WithEarlyOut(v) returns has EarlyOut() = v and
\* the DryRun() of the receiver, and the receiver is as it was.
CX_C24 ==
    aut.op = "WithEarlyOut" =>
        /\ EarlyOut(aut.cfg) = aut.arg
        /\ DryRun(aut.cfg) = DryRun(aut.recv)
        /\ aut.kept = aut.recv

\* The members of the routines handed to Do that were started, in the order
\* of the calls; those that are not nil; and those whose Do returns an error.
IsMemberPath(path) == Len(path) = 1

Started == SelectSeq(aut.out.ran, IsMemberPath)

StartedKeys == {<<Started[i][1]>> : i \in 1..Len(Started)}

Runnable == {k \in DOMAIN aut.routines.m : aut.routines.m[k].kind # "nil"}

MemberError(k) == RoutineDo(aut.routines.m[k], WithSubRoutineName(aut.cfg, k)).err

Failing == {k \in Runnable : MemberError(k) # NoError}

FirstFailing == CHOOSE k \in Failing : \A j \in Failing : KeyRank(k) <= KeyRank(j)

\* C25: Do starts its members in ascending key order.  With early-out asked
\* for, it starts the members up to the first failing one and no later one,
\* and returns the error of that member; without, it starts every member
\* and returns an error exactly when some member failed.
CX_C25 ==
    aut.op = "Do" =>
        /\ \A i, j \in 1..Len(Started) :
              i < j => KeyRank(<<Started[i][1]>>) < KeyRank(<<Started[j][1]>>)
        /\ (aut.want.earlyOut /\ Failing # {}) =>
              /\ StartedKeys = {k \in Runnable : KeyRank(k) <= KeyRank(FirstFailing)}
              /\ aut.out.err = WrapError(FirstFailing, MemberError(FirstFailing))
        /\ (aut.want.earlyOut /\ Failing = {}) =>
              /\ StartedKeys = Runnable
              /\ aut.out.err = NoError
        /\ ~aut.want.earlyOut =>
              /\ StartedKeys = Runnable
              /\ (aut.out.err # NoError) <=> (Failing # {})

\* The components of a pattern: the texts between its slashes, a slash at
\* the end being ignored.
RECURSIVE SplitSlash(_)
SplitSlash(path) ==
    IF \A i \in 1..Len(path) : path[i] # "/" THEN <<path>>
    ELSE <<Cut(path).name>> \o SplitSlash(Cut(path).nestedPath)

PatternParts(pat) ==
    SplitSlash(IF Len(pat) >= 1 /\ pat[Len(pat)] = "/"
               THEN SubSeq(pat, 1, Len(pat) - 1) ELSE pat)

\* A pattern matches a path of keys component by component, or reaches it
\* with components left.
MatchesPath(parts, path) ==
    /\ Len(parts) = Len(path)
    /\ \A i \in 1..Len(path) : parts[i] = Star \/ parts[i] = path[i]

ReachesPath(parts, path) ==
    /\ Len(parts) > Len(path)
    /\ \A i \in 1..Len(path) : parts[i] = Star \/ parts[i] = path[i]

\* What is kept of the routine r at path: all of it when a pattern matches
\* the path; of a nested routine that no pattern matches, the members kept,
\* provided that (passing) a pattern reaches it with components left, or
\* (not passing) a member is kept; nothing otherwise.
RECURSIVE KeptOf(_, _, _, _)
KeptMembers(r, path, patterns, passing) ==
    Routines([k \in {x \in DOMAIN r.m :
                        KeptOf(r.m[x], Append(path, x), patterns, passing).keep} |->
                 KeptOf(r.m[k], Append(path, k), patterns, passing).r])

KeptOf(r, path, patterns, passing) ==
    CASE \E i \in 1..Len(patterns) : MatchesPath(PatternParts(patterns[i]), path) ->
            [keep |-> TRUE, r |-> r]
      [] r.kind # "routines" -> [keep |-> FALSE, r |-> r]
      [] passing ->
            [keep |-> \E i \in 1..Len(patterns) :
                         ReachesPath(PatternParts(patterns[i]), path),
             r |-> KeptMembers(r, path, patterns, passing)]
      [] OTHER ->
            [keep |-> DOMAIN KeptMembers(r, path, patterns, passing).m # {},
             r |-> KeptMembers(r, path, patterns, passing)]

\* C26, as stated: the result holds the routines that a pattern matches,
\* each with all of its sub-routines, under the nested routines that lead to
\* them, and nothing else.
CX_C26 ==
    aut.op = "SubRoutines" =>
        aut.res = KeptMembers(aut.routines, << >>, aut.patterns, FALSE)

\* C26, amended: besides, a nested routine that a pattern reaches with
\* components left is in the result with the members kept, even when none
\* is kept.
Thm_C26 ==
    aut.op = "SubRoutines" =>
        aut.res = KeptMembers(aut.routines, << >>, aut.patterns, TRUE)

\* A nested routine with members is in the result without any of them.
Wit_C26 ==
    /\ aut.op = "SubRoutines"
    /\ \E k \in DOMAIN aut.res.m :
          /\ aut.res.m[k] = Routines(<< >>)
          /\ aut.routines.m[k] # Routines(<< >>)
-----------------------------------------------------------------------------
(* PublishSignals.Do: paging through the signals of the integrations        *)

\* The page sizes, scaled down: 1000 and 500 in the source.
selectSignalsPageSize == 2

publishSignalsPageSize == 1

\* Largest number of integrations listed and of signals of one integration.
MaxIntegrations == 2

MaxSignals == 4

\* The versions of Do: with PublishOptions (the skip is a field of
\* query.Query) and with Config (the query is a fields.ResourceQuery).
PublishVersions == {"options", "config"}

\* ResourceQuery.NextPage
NextPage(query) == [query EXCEPT !.skip = @ + query.limit]

\* The answer of SelectSignals for an integration with count signals that
\* match the filter, sorted by id and numbered from 1: the page asked for,
\* and the total, which is -1 when the backend did not count.
SelectSignals(count, query, counted) ==
    [data |-> [n \in 1..(IF count - query.skip >= query.limit THEN query.limit
                         ELSE IF count > query.skip THEN count - query.skip
                         ELSE 0) |-> query.skip + n],
     total |-> IF counted THEN count ELSE -1]

\* The more value at the end of addItems.
More(results, query) ==
    IF results.total >= 0
    THEN query.skip + Len(results.data) < results.total
    ELSE Len(results.data) = query.limit

\* flush: the items held are published and the map is emptied.
Flush(p) == [p EXCEPT !.published = @ + p.items, !.items = 0]

\* One round of the inner loop: addItems examines the page (every signal is
\* taken to need an update), the items are flushed when they are enough,
\* and the query moves to the next page.
PageRound(p) ==
    LET results == SelectSignals(p.counts[p.id], p.query, p.counted)
        added == [p EXCEPT !.seen[p.id] = @ \o results.data,
                           !.first[p.id] = IF p.first[p.id] < 0 THEN p.query.skip ELSE @,
                           !.items = @ + Len(results.data),
                           !.more = More(results, p.query),
                           !.query = NextPage(p.query)]
    IN  IF added.items >= publishSignalsPageSize THEN Flush(added) ELSE added

\* The end of an integration and the start of the next one, where only the
\* version with PublishOptions sets the skip back to 0.
NextIntegration(p) ==
    LET flushed == Flush(p) IN
    IF p.id = Len(p.counts) THEN [flushed EXCEPT !.op = "done"]
    ELSE [flushed EXCEPT !.id = @ + 1, !.more = TRUE,
                         !.query.skip = IF p.ver = "options" THEN 0 ELSE @]

PublishStart(ver, counts, counted) ==
    [op |-> "Do", ver |-> ver, counts |-> counts, counted |-> counted,
     id |-> 1, more |-> TRUE,
     query |-> [skip |-> 0, limit |-> selectSignalsPageSize],
     seen |-> [i \in 1..Len(counts) |-> << >>],
     first |-> [i \in 1..Len(counts) |-> -1],
     items |-> 0, published |-> 0]

PublishInit ==
    /\ pkg = "fields"
    /\ cop = CmpIdle
    /\ fop = FilterIdle
    /\ mem = MemIdle
    /\ frame = FrameIdle
    /\ tsop = TsIdle
    /\ dop = DurIdle
    /\ lab = LabIdle
    /\ aut = AutIdle
    /\ pub \in {PublishStart(ver, counts, counted) :
                   ver \in PublishVersions,
                   counts \in UNION {[1..n -> 0..MaxSignals] : n \in 1..MaxIntegrations},
                   counted \in BOOLEAN}

DoSelectPage ==
    /\ pub.op = "Do"
    /\ pub.more
    /\ pub' = PageRound(pub)
    /\ UNCHANGED <<pkg, cop, fop, mem, frame, tsop, dop, lab, aut>>

DoNextIntegration ==
    /\ pub.op = "Do"
    /\ ~pub.more
    /\ pub' = NextIntegration(pub)
    /\ UNCHANGED <<pkg, cop, fop, mem, frame, tsop, dop, lab, aut>>

PublishNext ==
    \/ DoSelectPage
    \/ DoNextIntegration

SpecPublish == PublishInit /\ [][PublishNext]_vars

\* C28: when Do has returned, the paging of every integration began at
\* skip 0, and every signal of every integration was examined exactly once.
CX_C28 ==
    pub.op = "done" =>
        \A i \in 1..Len(pub.counts) :
            /\ pub.first[i] = 0
            /\ pub.seen[i] = [n \in 1..pub.counts[i] |-> n]
====
